---------------------------- MODULE Spec2Model ----------------------------
(***************************************************************************)
(* Green Hosting Inspector: the classification cache (in memory and in     *)
(* the editor's global state), the batch inspector and the handlers that   *)
(* call it (editor scan, dashboard scan, clear-cache command, activation). *)
(*                                                                         *)
(* The extension host runs one handler or promise continuation at a time   *)
(* to completion; an action below is one such run: the code from an event  *)
(* or a settled promise up to the next await that really suspends.         *)
(***************************************************************************)
EXTENDS Integers, FiniteSets, Sequences, TLC

VARIABLES
  now,                 \* Date.now(), in milliseconds since the first start
  running,             \* an extension host process is alive and activated
  urlCache,            \* Map<string, CacheEntry>, the in-memory cache
  globalState,         \* the Memento: storage key -> stored value (durable)
  processedDocuments,  \* Map<docKey, DocumentCache>
  document,            \* the document of the active text editor
  workspace,           \* the domains found in the files of the workspace
  calls,               \* the batchInspectGreenHosting calls awaiting lookups
  returns,             \* what each classify call of this process has returned
  clearsPending,       \* clear-cache commands awaiting globalState.update
  nCalls,              \* number of batchInspectGreenHosting calls so far
  storage,             \* how the Memento behaves, and what its failures have led to
  nTicks,              \* number of clock advances so far
  debounceTimeout,     \* the handle setTimeout returned last, or NoTimeout
  timers,              \* the timers of the event loop that have not run: handle -> timer
  nTimers,             \* number of setTimeout calls so far
  posted,              \* the messages the metrics panel has posted to its webview
  scans,               \* the _runScan calls of the panel: number -> what the scan holds
  nScans               \* number of _runScan calls so far

vars == <<now, running, urlCache, globalState, processedDocuments, document,
          workspace, calls, returns, clearsPending, nCalls, storage, nTicks,
          debounceTimeout, timers, nTimers, posted, scans, nScans>>

(* The debounce of the change events *)
timerVars == <<debounceTimeout, timers, nTimers>>

(* The metrics panel *)
panelVars == <<posted, scans, nScans>>

-----------------------------------------------------------------------------
(* Bounds of the model *)

MaxCalls == 2
MaxTicks == 2
MaxPendingClears == 1
MaxLookupCalls == 1
MaxOverlapCalls == 3
MaxStorageCalls == 1
MaxEditorCalls == 1
MaxExtractCalls == 1
MaxResolveCalls == 2
MaxEvents == 2
MaxClearCalls == 2
MaxRescanCalls == 2

(* Program constants *)

CACHE_EXPIRY == 24 * 60 * 60 * 1000 * 7
CACHE_STORAGE_KEY == "greenHostingCache"
SUPPORTED_LANGUAGES ==
  {"javascript", "javascriptreact", "typescript", "typescriptreact", "python", "java",
   "csharp", "html", "css", "scss", "sass", "less", "json", "jsonc", "xml", "yaml",
   "markdown", "php", "ruby", "go", "rust", "vue", "svelte", "astro", "handlebars",
   "ejs", "twig", "razor", "blade", "dockerfile", "shellscript", "r", "plaintext"}

(* JavaScript's null and undefined, and the two booleans, as values of one type *)
NULL == "null"
UNDEF == "undefined"
JsTrue == "true"
JsFalse == "false"

EmptyMap == [k \in {} |-> k]

(* Domains that occur in documents and workspaces *)
Domains == {"a.com", "b.com"}

DEBOUNCE_DELAY == 1000

(* let debounceTimeout: undefined, among handles that count from 1 *)
NoTimeout == 0

(* The clock is read at the instants 0, E-1, E, 2E-1, 2E, ... (E the expiry    *)
(* window): an entry written at one instant is one millisecond short of its   *)
(* expiry, or exactly at it, at later ones.                                   *)
TickStep(n) == IF n % 2 = 0 THEN CACHE_EXPIRY - 1 ELSE 1

-----------------------------------------------------------------------------
(* Characters and texts.  A text is the sequence of its characters, each a  *)
(* string of one character.                                                 *)

(* A string of this module cannot hold the backquote: this value is it *)
Backquote == "backquote"

(* The characters with the codes 32 to 126, in the order of their codes *)
Ascii ==
  <<" ", "!", "\"", "#", "$", "%", "&", "'", "(", ")", "*", "+", ",", "-",
    ".", "/", "0", "1", "2", "3", "4", "5", "6", "7", "8", "9", ":", ";",
    "<", "=", ">", "?", "@", "A", "B", "C", "D", "E", "F", "G", "H", "I",
    "J", "K", "L", "M", "N", "O", "P", "Q", "R", "S", "T", "U", "V", "W",
    "X", "Y", "Z", "[", "\\", "]", "^", "_", Backquote, "a", "b", "c", "d",
    "e", "f", "g", "h", "i", "j", "k", "l", "m", "n", "o", "p", "q", "r",
    "s", "t", "u", "v", "w", "x", "y", "z", "{", "|", "}", "~">>

Digit == {Ascii[i] : i \in 17..26}
Upper == {Ascii[i] : i \in 34..59}
Lower == {Ascii[i] : i \in 66..91}
Letter == Upper \cup Lower
Alnum == Letter \cup Digit

(* The whitespace of the patterns, among the characters of the texts *)
Whitespace == {" ", "\t", "\n", "\r", "\f"}

Chars == {Ascii[i] : i \in DOMAIN Ascii} \cup Whitespace

CharCode(c) ==
  CASE c = "\t" -> 9 [] c = "\n" -> 10 [] c = "\f" -> 12 [] c = "\r" -> 13
    [] OTHER -> 31 + (CHOOSE i \in DOMAIN Ascii : Ascii[i] = c)

charCodeAt(text, i) == CharCode(text[i])

toLowerCase(c) == IF c \in Upper THEN Ascii[CharCode(c) + 32 - 31] ELSE c

LowerCase(chars) == [i \in DOMAIN chars |-> toLowerCase(chars[i])]

(* The string of a sequence of characters *)
RECURSIVE Join(_)
Join(chars) == IF chars = <<>> THEN "" ELSE Head(chars) \o Join(Tail(chars))

(* text.slice(from, to), on positions that count from 1 *)
Slice(text, from, to) == SubSeq(text, from, to - 1)

(* str.split(sep) *)
RECURSIVE SplitFrom(_, _, _, _)
SplitFrom(chars, sep, i, part) ==
  IF i > Len(chars) THEN <<part>>
  ELSE IF chars[i] = sep THEN <<part>> \o SplitFrom(chars, sep, i + 1, <<>>)
  ELSE SplitFrom(chars, sep, i + 1, Append(part, chars[i]))

Split(chars, sep) == SplitFrom(chars, sep, 1, <<>>)

(* str.includes(word) *)
Includes(chars, word) ==
  \E i \in 1..(Len(chars) - Len(word) + 1) : SubSeq(chars, i, i + Len(word) - 1) = word

-----------------------------------------------------------------------------
(* Documents *)

Document(languageId, text) ==
  [languageId |-> languageId, text |-> text, version |-> 1, uri |-> "file:///doc"]

(* a.com b.com a.com *)
TwoDomainsText ==
  <<"a", ".", "c", "o", "m", " ", "b", ".", "c", "o", "m", " ", "a", ".",
    "c", "o", "m">>

OneDomainText == <<"a", ".", "c", "o", "m">>

Documents ==
  { Document("typescript", TwoDomainsText),
    Document("typescript", <<>>),
    Document("log", OneDomainText) }

(* The domains of the URL occurrences in the files of the workspace *)
Workspaces == { {"a.com"} }

(* ((hash << 5) - hash) + char, then hash & hash: 31 * hash + char wrapped to a   *)
(* signed 32-bit integer, computed on 16-bit halves                            *)
HashStep(hash, char) ==
  LET hi == hash \div 65536
      lo == hash % 65536
      t == lo * 31 + char
      h == ((hi * 31) + (t \div 65536)) % 65536
  IN ((IF h >= 32768 THEN h - 65536 ELSE h) * 65536) + (t % 65536)

(* The loop from the character i on.  Each turn computes its hash before *)
(* the next turn begins: the test on it sees to that.                     *)
RECURSIVE HashFrom(_, _, _)
HashFrom(text, i, hash) ==
  IF i > Len(text) THEN hash
  ELSE LET next == HashStep(hash, charCodeAt(text, i))
       IN  IF next \in Int THEN HashFrom(text, i + 1, next) ELSE hash

simpleHash(text) == HashFrom(text, 1, 0)

-----------------------------------------------------------------------------
(* The two patterns of domainUtils.ts.  A pattern tried at one position     *)
(* gives the ways it can match there in the order the backtracking engine   *)
(* tries them: greedy quantifiers longest first, an optional group taken    *)
(* before it is skipped.  Positions count from 1; an end is the position    *)
(* after the last character matched.                                        *)

HostChars == Alnum \cup {"-"}

(* The characters a path is made of: all but whitespace, the three quotes, *)
(* the angle brackets, the closing parenthesis and the closing bracket     *)
PathChars == Chars \ (Whitespace \cup {"\"", "'", Backquote, "<", ">", ")", "]"})

MaxLabel == 63

Www == <<"w", "w", "w", ".">>

Http == <<"h", "t", "t", "p", ":", "/", "/">>

Https == <<"h", "t", "t", "p", "s", ":", "/", "/">>

Min(a, b) == IF a < b THEN a ELSE b

(* hi, hi - 1, ..., lo *)
Descending(hi, lo) == [k \in 1..(hi - lo + 1) |-> hi - k + 1]

(* The position after the longest run of characters of a class from i on *)
RunEnd(text, i, class) ==
  CHOOSE e \in i..(Len(text) + 1) :
    /\ \A k \in i..(e - 1) : text[k] \in class
    /\ e = Len(text) + 1 \/ text[e] \notin class

(* The word at position i, under the flag i *)
StartsWith(text, i, word) ==
  /\ i + Len(word) - 1 <= Len(text)
  /\ LowerCase(SubSeq(text, i, i + Len(word) - 1)) = word

(* A label at i: one alphanumeric, then optionally up to 61 characters of  *)
(* HostChars and one alphanumeric.  Its ends, longest first.               *)
LabelEnds(text, i) ==
  IF i > Len(text) \/ text[i] \notin Alnum THEN <<>>
  ELSE SelectSeq(Descending(Min(RunEnd(text, i, HostChars), i + MaxLabel), i + 1),
                 LAMBDA e : text[e - 1] \in Alnum)

(* A dot at p and two letters or more: the ends of the top-level domain *)
TldFrom(tld, ends) == [k \in DOMAIN ends |-> [end |-> ends[k], tld |-> tld]]

TldEnds(text, p) ==
  IF p > Len(text) \/ text[p] # "." THEN <<>>
  ELSE TldFrom(p + 1, Descending(RunEnd(text, p + 1, Letter), p + 3))

(* At p, the position after a label: any number of dot and label, then the *)
(* top-level domain                                                       *)
RECURSIVE AfterLabel(_, _)
RECURSIVE AfterLabels(_, _)
AfterLabel(text, p) ==
  (IF p <= Len(text) /\ text[p] = "."
     THEN AfterLabels(text, LabelEnds(text, p + 1))
     ELSE <<>>) \o TldEnds(text, p)

AfterLabels(text, ends) ==
  IF ends = <<>> THEN <<>>
  ELSE AfterLabel(text, Head(ends)) \o AfterLabels(text, Tail(ends))

(* Group 1 at i: a label, any number of dot and label, the top-level domain *)
HostnamesFrom(start, found) ==
  [k \in DOMAIN found |-> [start |-> start, end |-> found[k].end, tld |-> found[k].tld]]

Hostnames(text, i) == HostnamesFrom(i, AfterLabels(text, LabelEnds(text, i)))

(* The optional www. and group 1 at i *)
WwwHostnames(text, i) ==
  (IF StartsWith(text, i, Www) THEN Hostnames(text, i + Len(Www)) ELSE <<>>)
    \o Hostnames(text, i)

(* The optional path at e: a slash and any number of PathChars *)
PathEnds(text, e) ==
  IF e <= Len(text) /\ text[e] = "/"
    THEN Append(Descending(RunEnd(text, e + 1, PathChars), e + 1), e)
    ELSE <<e>>

(* The matches begun at index with one hostname and each end of its path *)
WithPath(index, host, ends) ==
  [k \in DOMAIN ends |-> [index |-> index, end |-> ends[k], host |-> host]]

(* The matches begun at index whose hostname is one of hosts *)
RECURSIVE WithPaths(_, _, _)
WithPaths(text, index, hosts) ==
  IF hosts = <<>> THEN <<>>
  ELSE WithPath(index, Head(hosts), PathEnds(text, Head(hosts).end))
         \o WithPaths(text, index, Tail(hosts))

(* The lookbehind of DOMAIN_REGEX: no alphanumeric, @, slash or _ before i *)
LookBehind(text, i) == i = 1 \/ text[i - 1] \notin (Alnum \cup {"@", "/", "_"})

(* The lookahead of DOMAIN_REGEX: no alphanumeric or _ at e *)
LookAhead(text, e) == e > Len(text) \/ text[e] \notin (Alnum \cup {"_"})

(* The match of a pattern at a position: none, or the first of the ways *)
FirstOf(ways) == IF ways = <<>> THEN <<>> ELSE <<Head(ways)>>

(* DOMAIN_REGEX tried at i *)
DomainRegexAt(text, i) ==
  IF ~LookBehind(text, i) THEN <<>>
  ELSE FirstOf(SelectSeq(WithPaths(text, i, WwwHostnames(text, i)),
                         LAMBDA m : LookAhead(text, m.end)))

(* The position after the scheme at i, or after the text when i has none *)
SchemeEnd(text, i) ==
  IF StartsWith(text, i, Https) THEN i + Len(Https)
  ELSE IF StartsWith(text, i, Http) THEN i + Len(Http)
  ELSE Len(text) + 1

(* FULL_URL_REGEX tried at i *)
FullUrlRegexAt(text, i) == FirstOf(WithPaths(text, i, WwwHostnames(text, SchemeEnd(text, i))))

(* Where the search goes on after the pattern was tried at from: after the *)
(* match m, or one position on when there was none                         *)
LastIndex(from, m) == IF m = <<>> THEN from + 1 ELSE m[1].end

(* The matches of FULL_URL_REGEX from the position from on, m being what   *)
(* the pattern gives at from itself                                        *)
RECURSIVE FullUrlExecFrom(_, _, _)
FullUrlExecFrom(text, from, m) ==
  m \o (IF LastIndex(from, m) > Len(text) THEN <<>>
        ELSE FullUrlExecFrom(text, LastIndex(from, m),
                             FullUrlRegexAt(text, LastIndex(from, m))))

(* while ((match = fullUrlRegex.exec(text)) !== null) *)
FullUrlExec(text, from) ==
  IF from > Len(text) THEN <<>> ELSE FullUrlExecFrom(text, from, FullUrlRegexAt(text, from))

(* The matches of DOMAIN_REGEX from the position from on, m being what the *)
(* pattern gives at from itself                                            *)
RECURSIVE DomainExecFrom(_, _, _)
DomainExecFrom(text, from, m) ==
  m \o (IF LastIndex(from, m) > Len(text) THEN <<>>
        ELSE DomainExecFrom(text, LastIndex(from, m),
                            DomainRegexAt(text, LastIndex(from, m))))

(* while ((domainMatch = domainRegex.exec(text)) !== null) *)
DomainExec(text, from) ==
  IF from > Len(text) THEN <<>> ELSE DomainExecFrom(text, from, DomainRegexAt(text, from))

-----------------------------------------------------------------------------
(* domainUtils.ts: the word lists and isValidDomain *)

EXCLUDE_PATTERNS ==
  {"js", "ts", "tsx", "jsx", "css", "scss", "sass", "less", "html", "htm",
   "json", "xml", "yaml", "yml", "md", "txt", "csv", "svg", "png", "jpg",
   "jpeg", "gif", "ico", "woff", "woff2", "ttf", "eot", "pdf", "zip", "tar",
   "gz", "rar", "7z", "exe", "dll", "so", "dylib", "py", "rb", "php", "java",
   "go", "rs", "c", "cpp", "h", "hpp", "cs", "swift", "kt", "sh", "bash",
   "zsh", "fish", "ps1", "bat", "cmd", "env", "lock", "log", "map", "vue",
   "svelte", "astro", "prisma", "graphql", "sql", "db", "sqlite", "config",
   "localhost", "example.com", "example.org", "example.net", "test.com",
   "package.json", "package-lock.json", "tsconfig.json", "webpack.config",
   "babel.config", "eslint.config", "prettier.config", "jest.config"}

CODE_KEYWORDS ==
  {"this", "self", "super", "import", "export", "require", "module",
   "exports", "console", "logger", "log", "debug", "error", "warn", "info",
   "trace", "window", "document", "navigator", "location", "history",
   "screen", "process", "global", "globalThis", "Buffer", "Math", "JSON",
   "Object", "Array", "String", "Number", "Boolean", "Symbol", "Date",
   "Promise", "Proxy", "Reflect", "Map", "Set", "WeakMap", "WeakSet",
   "Error", "TypeError", "RangeError", "SyntaxError", "ReferenceError",
   "Function", "RegExp", "Int8Array", "Uint8Array", "Float32Array",
   "Float64Array", "Intl", "Atomics", "SharedArrayBuffer", "DataView",
   "ArrayBuffer", "app", "server", "client", "db", "database", "api",
   "router", "route", "req", "res", "request", "response", "ctx", "context",
   "config", "options", "props", "state", "store", "dispatch", "action",
   "reducer", "selector", "component", "element", "node", "event", "handler",
   "callback", "listener", "util", "utils", "helper", "helpers", "service",
   "services", "controller", "model", "schema", "type", "types", "interface",
   "enum", "print", "len", "str", "int", "float", "list", "dict", "tuple",
   "set", "cls", "kwargs", "args", "describe", "it", "test", "expect",
   "assert", "mock", "spy", "jest", "vi", "React", "Vue", "Angular",
   "Component", "Directive", "Pipe", "Injectable", "useState", "useEffect",
   "useRef", "useMemo", "useCallback", "useContext"}

VALID_TLDS ==
  {"com", "org", "net", "io", "co", "dev", "app", "ai", "cloud", "tech",
   "edu", "gov", "mil", "int", "eu", "uk", "de", "fr", "it", "es", "nl",
   "be", "ch", "at", "au", "ca", "us", "jp", "cn", "kr", "in", "br", "ru",
   "pl", "se", "no", "dk", "fi", "cz", "pt", "ie", "nz", "za", "mx", "ar",
   "cl", "pe", "ve", "info", "biz", "pro", "museum", "aero", "jobs", "mobi",
   "travel", "xxx", "asia", "cat", "coop", "tel", "post", "me", "tv", "cc",
   "ws", "fm", "am", "ly", "gl", "gg", "to", "is", "st", "su", "ac", "sh",
   "cx", "nu", "tk", "cf", "ga", "gq", "ml"}

(* The test for a dotted quad at the head of the domain: n groups of digits *)
(* separated by dots from i on                                             *)
RECURSIVE DigitGroups(_, _, _)
DigitGroups(chars, i, n) ==
  LET e == RunEnd(chars, i, Digit)
  IN  IF e = i THEN FALSE
      ELSE IF n = 1 THEN TRUE
      ELSE e <= Len(chars) /\ chars[e] = "." /\ DigitGroups(chars, e + 1, n - 1)

IpGroups == 4

MinDomainLength == 4

(* The test without its first step, on localhost and the dotted quad *)
isValidDomain_NoHostTest(domain) ==
  LET lower == LowerCase(domain)
      parts == Split(lower, ".")
      tld == parts[Len(parts)]
  IN  /\ Join(lower) \notin EXCLUDE_PATTERNS
      /\ Join(tld) \in VALID_TLDS
      /\ ~\E k \in DOMAIN parts : Join(parts[k]) \in EXCLUDE_PATTERNS /\ Len(parts) <= 2
      /\ Len(domain) >= MinDomainLength

(* The test without the two lookups in EXCLUDE_PATTERNS *)
isValidDomain_NoDenylist(domain) ==
  LET lower == LowerCase(domain)
      parts == Split(lower, ".")
      tld == parts[Len(parts)]
  IN  /\ ~Includes(lower, <<"l", "o", "c", "a", "l", "h", "o", "s", "t">>)
      /\ ~DigitGroups(domain, 1, IpGroups)
      /\ Join(tld) \in VALID_TLDS
      /\ Len(domain) >= MinDomainLength

isValidDomain(domain) ==
  LET lower == LowerCase(domain)
      parts == Split(lower, ".")
      tld == parts[Len(parts)]
  IN  /\ ~Includes(lower, <<"l", "o", "c", "a", "l", "h", "o", "s", "t">>)
      /\ ~DigitGroups(domain, 1, IpGroups)
      /\ Join(lower) \notin EXCLUDE_PATTERNS
      /\ Join(tld) \in VALID_TLDS
      /\ ~\E k \in DOMAIN parts : Join(parts[k]) \in EXCLUDE_PATTERNS /\ Len(parts) <= 2
      /\ Len(domain) >= MinDomainLength

-----------------------------------------------------------------------------
(* extension.ts: extractUrlsWithRanges.  Offsets count from 0, as in the    *)
(* code; the positions of the patterns count from 1.                        *)

(* document.positionAt(offset) *)
positionAt(text, offset) ==
  LET breaks == {i \in 1..offset : text[i] = "\n"}
      start == IF breaks = {} THEN 0 ELSE CHOOSE i \in breaks : \A j \in breaks : j <= i
  IN  [line |-> Cardinality(breaks), character |-> offset - start]

(* document.offsetAt(position) *)
offsetAt(text, position) ==
  LET start == IF position.line = 0 THEN 0
               ELSE CHOOSE i \in 1..Len(text) :
                      /\ text[i] = "\n"
                      /\ Cardinality({j \in 1..i : text[j] = "\n"}) = position.line
  IN  start + position.character

(* The UrlMatch whose domain is group 1 as the text has it *)
UrlMatch_AsWritten(text, m) ==
  [url |-> Join(Slice(text, m.index, m.end)),
   domain |-> Join(Slice(text, m.host.start, m.host.end)),
   range |-> [start |-> positionAt(text, m.index - 1),
              end |-> positionAt(text, m.end - 1)]]

(* The UrlMatch pushed for a match of either pattern *)
UrlMatch(text, m) ==
  [url |-> Join(Slice(text, m.index, m.end)),
   domain |-> Join(LowerCase(Slice(text, m.host.start, m.host.end))),
   range |-> [start |-> positionAt(text, m.index - 1),
              end |-> positionAt(text, m.end - 1)]]

(* The first loop: every full URL whose hostname is a valid domain *)
UrlMatches(text, found) == [k \in DOMAIN found |-> UrlMatch(text, found[k])]

FullUrlPass(text) ==
  UrlMatches(text, SelectSeq(FullUrlExec(text, 1),
                             LAMBDA m : isValidDomain(LowerCase(Slice(text, m.host.start, m.host.end)))))

(* The test on the characters around a bare domain without the call rule *)
CodeConstruct_NoCall(charBefore, charTwoBefore, charAfter) ==
  charBefore = "." /\ charTwoBefore \in (Alnum \cup {"_", "$"})

(* The two tests on the characters around a bare domain: identifier.x, x( *)
CodeConstruct(charBefore, charTwoBefore, charAfter) ==
  \/ charBefore = "." /\ charTwoBefore \in (Alnum \cup {"_", "$"})
  \/ charAfter = "("

(* The test for an earlier match at the index, never finding one *)
AlreadyMatched_Never(text, matches, index) == FALSE

(* matches.some(...): the index of the bare domain is inside a range *)
AlreadyMatched(text, matches, index) ==
  \E k \in DOMAIN matches :
    LET mStart == offsetAt(text, matches[k].range.start)
        mEnd == offsetAt(text, matches[k].range.end)
    IN  index >= mStart /\ index < mEnd

(* The second loop, over the matches of DOMAIN_REGEX still to handle *)
RECURSIVE BarePass(_, _, _)
BarePass(text, found, matches) ==
  IF found = <<>> THEN matches
  ELSE LET m == Head(found)
           index == m.index - 1
           domain == LowerCase(Slice(text, m.host.start, m.host.end))
           tld == LowerCase(Slice(text, m.host.tld, m.host.end))
           firstPart == Split(domain, ".")[1]
           charBefore == IF index > 0 THEN text[m.index - 1] ELSE ""
           charTwoBefore == IF index > 1 THEN text[m.index - 2] ELSE ""
           charAfter == IF m.end <= Len(text) THEN text[m.end] ELSE ""
           push == /\ Join(firstPart) \notin CODE_KEYWORDS
                   /\ ~CodeConstruct(charBefore, charTwoBefore, charAfter)
                   /\ ~AlreadyMatched(text, matches, index)
                   /\ isValidDomain(domain)
                   /\ Join(tld) \in VALID_TLDS
       IN  BarePass(text, Tail(found),
                    IF push THEN Append(matches, UrlMatch(text, m)) ELSE matches)

extractUrlsWithRanges(doc) ==
  BarePass(doc.text, DomainExec(doc.text, 1), FullUrlPass(doc.text))

-----------------------------------------------------------------------------
(* metricsPanel.ts: extractDomainsFromText, the extraction of the dashboard *)

(* The matches of FULL_URL_REGEX whose hostname is a valid domain *)
ValidUrls(text) ==
  SelectSeq(FullUrlExec(text, 1),
            LAMBDA m : isValidDomain(LowerCase(Slice(text, m.host.start, m.host.end))))

(* matchedRanges after the first loop: [match.index, match.index + match[0].length] *)
MatchedRanges(found) == [k \in DOMAIN found |-> <<found[k].index - 1, found[k].end - 1>>]

(* matchedRanges.some(([s, e]) => pos >= s && pos < e) *)
InMatchedRange(matchedRanges, pos) ==
  \E k \in DOMAIN matchedRanges : pos >= matchedRanges[k][1] /\ pos < matchedRanges[k][2]

(* The second loop of the dashboard, over the matches of DOMAIN_REGEX still *)
(* to handle                                                                *)
RECURSIVE DomainLoop(_, _, _, _)
DomainLoop(text, found, matchedRanges, domains) ==
  IF found = <<>> THEN domains
  ELSE LET m == Head(found)
           pos == m.index - 1
           domain == LowerCase(Slice(text, m.host.start, m.host.end))
           tld == LowerCase(Slice(text, m.host.tld, m.host.end))
           firstPart == Split(domain, ".")[1]
           charBefore == IF pos > 0 THEN text[m.index - 1] ELSE ""
           charTwoBefore == IF pos > 1 THEN text[m.index - 2] ELSE ""
           charAfter == IF m.end <= Len(text) THEN text[m.end] ELSE ""
           push == /\ Join(firstPart) \notin CODE_KEYWORDS
                   /\ ~InMatchedRange(matchedRanges, pos)
                   /\ ~(charBefore = "." /\ charTwoBefore \in (Alnum \cup {"_", "$"}))
                   /\ charAfter # "("
                   /\ isValidDomain(domain)
                   /\ Join(tld) \in VALID_TLDS
       IN  DomainLoop(text, Tail(found), matchedRanges,
                      IF push THEN Append(domains, Join(domain)) ELSE domains)

(* The dashboard's extraction that takes the hostname as the text has it *)
extractDomainsFromText_AsWritten(text) ==
  LET found == ValidUrls(text)
  IN  DomainLoop(text, DomainExec(text, 1), MatchedRanges(found),
                 [k \in DOMAIN found |->
                    Join(Slice(text, found[k].host.start, found[k].host.end))])

extractDomainsFromText(text) ==
  LET found == ValidUrls(text)
  IN  DomainLoop(text, DomainExec(text, 1), MatchedRanges(found),
                 [k \in DOMAIN found |->
                    Join(LowerCase(Slice(text, found[k].host.start, found[k].host.end)))])

-----------------------------------------------------------------------------
(* The classification service client *)

(* What fetch and response.json() can do for one request: the request fails, *)
(* the status is not a success, the body is not JSON, or the body is a JSON  *)
(* object, with or without its green field                                   *)
FetchOutcomes ==
  { [type |-> "reject",  status |-> 0,   green |-> UNDEF,   hosted_by |-> UNDEF],
    [type |-> "status",  status |-> 429, green |-> UNDEF,   hosted_by |-> UNDEF],
    [type |-> "status",  status |-> 500, green |-> UNDEF,   hosted_by |-> UNDEF],
    [type |-> "badjson", status |-> 200, green |-> UNDEF,   hosted_by |-> UNDEF],
    [type |-> "json",    status |-> 200, green |-> JsTrue,  hosted_by |-> "Hetzner"],
    [type |-> "json",    status |-> 200, green |-> JsFalse, hosted_by |-> UNDEF],
    [type |-> "json",    status |-> 200, green |-> UNDEF,   hosted_by |-> UNDEF] }

Thrown(message) == [threw |-> TRUE, message |-> message, value |-> UNDEF]
Returned(value) == [threw |-> FALSE, message |-> UNDEF, value |-> value]

(* The status test without its 429 branch *)
HttpErrorMessage_NoRateLimit(status) == "API error (HTTP " \o ToString(status) \o ")"

HttpErrorMessage(status) ==
  IF status = 429 THEN "Rate limited - too many requests"
  ELSE "API error (HTTP " \o ToString(status) \o ")"

(* checkSingleDomain reading data.hostedBy, a field the service does not send *)
checkSingleDomain_CamelCase(outcome) ==
  CASE outcome.type = "reject"  -> Thrown("fetch failed")
    [] outcome.type = "status"  -> Thrown(HttpErrorMessage(outcome.status))
    [] outcome.type = "badjson" -> Thrown("Unexpected token < in JSON at position 0")
    [] OTHER -> Returned([green |-> outcome.green, hostedBy |-> UNDEF, error |-> UNDEF])

checkSingleDomain(outcome) ==
  CASE outcome.type = "reject"  -> Thrown("fetch failed")
    [] outcome.type = "status"  -> Thrown(HttpErrorMessage(outcome.status))
    [] outcome.type = "badjson" -> Thrown("Unexpected token < in JSON at position 0")
    [] OTHER -> Returned([green |-> outcome.green, hostedBy |-> outcome.hosted_by,
                          error |-> UNDEF])

(* The task without its catch: what checkSingleDomain throws rejects it *)
LookupTask_NoCatch(outcome) ==
  LET r == checkSingleDomain(outcome)
  IN IF r.threw
       THEN [settled |-> "rejected",
             result |-> [green |-> NULL, hostedBy |-> UNDEF, error |-> r.message]]
       ELSE [settled |-> "fulfilled", result |-> r.value]

(* The task batchInspectGreenHosting starts for one domain: how its promise *)
(* settles                                                                   *)
LookupTask(outcome) ==
  LET r == checkSingleDomain(outcome)
  IN IF r.threw
       THEN [settled |-> "fulfilled",
             result |-> [green |-> NULL, hostedBy |-> UNDEF, error |-> r.message]]
       ELSE [settled |-> "fulfilled", result |-> r.value]

-----------------------------------------------------------------------------
(* The cache and its durable copy *)

(* A cache hit returned without its hostedBy *)
ResultOf_NoHost(entry) ==
  [green |-> entry.green, hostedBy |-> UNDEF, error |-> entry.error]

ResultOf(entry) ==
  [green |-> entry.green, hostedBy |-> entry.hostedBy, error |-> entry.error]

EntryOf(result, timestamp) ==
  [green |-> result.green, hostedBy |-> result.hostedBy, error |-> result.error,
   timestamp |-> timestamp]

(* The expiry test with <= for < *)
NotExpired_Inclusive(entry, t) == t - entry.timestamp <= CACHE_EXPIRY

(* now - cached.timestamp < CACHE_EXPIRY *)
NotExpired(entry, t) == t - entry.timestamp < CACHE_EXPIRY

MapSet(map, key, value) ==
  [k \in DOMAIN map \cup {key} |-> IF k = key THEN value ELSE map[k]]

MapDelete(map, keys) == [k \in DOMAIN map \ keys |-> map[k]]

MementoHas(memento, key) == key \in DOMAIN memento

MementoGet(memento, key) == IF MementoHas(memento, key) THEN memento[key] ELSE EmptyMap

(* Hydration without the expiry test *)
restoreCacheFromStorage_All(memento, cache, t) ==
  IF ~MementoHas(memento, CACHE_STORAGE_KEY) THEN cache
  ELSE LET stored == MementoGet(memento, CACHE_STORAGE_KEY)
       IN [key \in DOMAIN cache \cup DOMAIN stored |->
             IF key \in DOMAIN stored THEN stored[key] ELSE cache[key]]

restoreCacheFromStorage(memento, cache, t) ==
  IF ~MementoHas(memento, CACHE_STORAGE_KEY) THEN cache
  ELSE LET stored == MementoGet(memento, CACHE_STORAGE_KEY)
           restored == {key \in DOMAIN stored : NotExpired(stored[key], t)}
       IN [key \in DOMAIN cache \cup restored |->
             IF key \in restored THEN stored[key] ELSE cache[key]]

(* The save that stamps every entry it copies with the time of the save *)
saveCacheToStorage_Restamped(memento, cache) ==
  MapSet(memento, CACHE_STORAGE_KEY,
         [key \in DOMAIN cache |-> [cache[key] EXCEPT !.timestamp = now]])

(* The save that never fills cacheObject *)
saveCacheToStorage_Empty(memento, cache) ==
  MapSet(memento, CACHE_STORAGE_KEY, EmptyMap)

saveCacheToStorage(memento, cache) ==
  LET cacheObject == [key \in DOMAIN cache |-> cache[key]]
  IN MapSet(memento, CACHE_STORAGE_KEY, cacheObject)

-----------------------------------------------------------------------------
(* applyDecorations: the part after the classification has returned *)

(* domainResults.get(match.domain) *)
ResultFor(results, domain) ==
  IF domain \in DOMAIN results THEN results[domain]
  ELSE [green |-> UNDEF, hostedBy |-> UNDEF, error |-> UNDEF]

(* if (value): the value is neither undefined, null, false nor the empty string *)
Truthy(value) == value \notin {UNDEF, NULL, JsFalse, ""}

(* A domain that has passed isValidDomain holds letters, digits, '-' and '.' *)
(* only, which encodeURIComponent leaves as they are                         *)
encodeURIComponent(domain) == domain

(* The match is decorated as green when its result is not false *)
IsGreen_NotFalse(results, domain) == ResultFor(results, domain).green # JsFalse

(* result?.green === true *)
IsGreen(results, domain) == ResultFor(results, domain).green = JsTrue

(* The hover messages, as the sequences of the strings appended to them (the *)
(* title of the first without its check-mark emoji, the domain without the  *)
(* backquotes around it)                                                     *)
GreenHover(domain, result) ==
  <<"**Green Web Hosting Verified**\n\n", "**Domain:** " \o domain \o "\n\n">>
  \o (IF Truthy(result.hostedBy)
        THEN <<"**Hosted by:** " \o result.hostedBy \o "\n\n">> ELSE <<>>)
  \o <<"This website is hosted on infrastructure that runs on renewable energy, verified by the Green Web Foundation.\n\n",
       "[Learn more about green hosting](https://www.thegreenwebfoundation.org/)">>

NotVerifiedHover(domain, result) ==
  <<"**No Evidence of Green Hosting**\n\n", "**Domain:** " \o domain \o "\n\n">>
  \o (IF Truthy(result.error)
        THEN <<"*Could not verify: " \o result.error \o "*\n\n">> ELSE <<>>)
  \o <<"The Green Web Foundation has no evidence that this domain is hosted on green infrastructure.\n\n",
       "This doesn't necessarily mean the hosting is not green - it may simply not be registered in the Green Web dataset.\n\n",
       "[Check on Green Web Foundation](https://www.thegreenwebfoundation.org/green-web-check/?url="
         \o encodeURIComponent(domain) \o ") - ",
       "[Find green hosting providers](https://www.thegreenwebfoundation.org/directory/)">>

(* The decoration options pushed for the matches, in the order of the matches *)
GreenDecorations(matches, results) ==
  LET green == SelectSeq(matches, LAMBDA m : IsGreen(results, m.domain))
  IN [i \in 1..Len(green) |->
        [range |-> green[i].range,
         hoverMessage |-> GreenHover(green[i].domain, ResultFor(results, green[i].domain))]]

NotVerifiedDecorations(matches, results) ==
  LET other == SelectSeq(matches, LAMBDA m : ~IsGreen(results, m.domain))
  IN [i \in 1..Len(other) |->
        [range |-> other[i].range,
         hoverMessage |-> NotVerifiedHover(other[i].domain,
                                           ResultFor(results, other[i].domain))]]

DocumentCacheOf(ctx, results) ==
  [hash |-> ctx.hash, version |-> ctx.version,
   greenRanges |-> GreenDecorations(ctx.matches, results),
   notVerifiedRanges |-> NotVerifiedDecorations(ctx.matches, results)]

(* Who called batchInspectGreenHosting, and what the caller holds across the await *)
Context(caller, docKey, hash, version, matches) ==
  [caller |-> caller, docKey |-> docKey, hash |-> hash,
   version |-> version, matches |-> matches]

(* What the caller of a classify call observes when it settles; current: *)
(* the clock has not advanced since the call was made, nor has the cache  *)
(* been cleared since it returned                                         *)
ReturnOf(rec, status, results) ==
  [domains |-> rec.domains, results |-> results, domainsToCheck |-> rec.domainsToCheck,
   outcomes |-> rec.outcomes, status |-> status, current |-> rec.now = now]

Stale(rets) == [id \in DOMAIN rets |-> [rets[id] EXCEPT !.current = FALSE]]

(* The Memento: mode "ok", or its failure: "throws" (get and update throw) *)
(* or "rejects" (the promise update returns rejects). failed: the          *)
(* operations a failure has hit; logged: those whose failure was written   *)
(* to the output channel; aborted: those that ended by the exception;      *)
(* clearsRejecting: clear-cache commands awaiting a promise that rejects   *)
StorageModes == {"ok", "throws", "rejects"}

NoFaults ==
  [mode |-> "ok", failed |-> {}, logged |-> {}, aborted |-> {}, clearsRejecting |-> 0]

(* The failure is caught and logged: catch (error) { outputChannel.appendLine } *)
Logged(stor, op) ==
  [stor EXCEPT !.failed = @ \cup {op}, !.logged = @ \cup {op}]

(* The rejection of a promise nobody awaits *)
Unhandled(stor, op) == [stor EXCEPT !.failed = @ \cup {op}]

(* The exception ends the handler *)
Aborted(stor, op) ==
  [stor EXCEPT !.failed = @ \cup {op}, !.aborted = @ \cup {op}]

(* What applyDecorations holds after its await: docKey, textHash and        *)
(* urlMatches are its constants, document.version is read again from the   *)
(* document of the editor                                                   *)
Resumed(ctx) == [ctx EXCEPT !.version = document.version]

(* A classify call settles with status and results, leaving cache; its caller *)
(* runs on: applyDecorations stores the document's decorations and persists   *)
(* the cache, _runScan persists the cache; neither does when the call rejects *)
Settle(id, rec, status, results, cache, docs, stor) ==
  /\ returns' = MapSet(returns, id, ReturnOf(rec, status, results))
  /\ urlCache' = cache
  /\ IF status = "fulfilled"
       THEN /\ processedDocuments' =
                 IF rec.ctx.caller = "editor"
                   THEN MapSet(docs, rec.ctx.docKey,
                               DocumentCacheOf(Resumed(rec.ctx), results))
                   ELSE docs
            /\ globalState' = IF stor.mode = "ok"
                                 THEN saveCacheToStorage(globalState, cache)
                                 ELSE globalState
            /\ storage' = CASE stor.mode = "ok" -> stor
                             [] stor.mode = "throws" -> Logged(stor, "save")
                             [] stor.mode = "rejects" -> Unhandled(stor, "save")
       ELSE /\ processedDocuments' = docs
            /\ globalState' = globalState
            /\ storage' = stor

-----------------------------------------------------------------------------
(* batchInspectGreenHosting *)

Range(seq) == {seq[i] : i \in DOMAIN seq}

CacheHits(domains, cache, t) ==
  {d \in domains : d \in DOMAIN cache /\ NotExpired(cache[d], t)}

(* A domain is looked up only when the cache has no entry for it *)
DomainsToCheck_MissesOnly(domains, cache, t) == {d \in domains : d \notin DOMAIN cache}

DomainsToCheck(domains, cache, t) == domains \ CacheHits(domains, cache, t)

(* results.set(domain, result) for every response *)
MergeResults(results, responses) ==
  [d \in DOMAIN results \cup DOMAIN responses |->
     IF d \in DOMAIN responses THEN responses[d] ELSE results[d]]

(* Only the responses without an error are written to the cache *)
CacheWrites_SuccessOnly(cache, responses, t) ==
  LET ok == {d \in DOMAIN responses : responses[d].error = UNDEF}
  IN [d \in DOMAIN cache \cup ok |-> IF d \in ok THEN EntryOf(responses[d], t) ELSE cache[d]]

(* urlCache.set(domain, { ...result, timestamp: now }) for every response *)
CacheWrites(cache, responses, t) ==
  [d \in DOMAIN cache \cup DOMAIN responses |->
     IF d \in DOMAIN responses THEN EntryOf(responses[d], t) ELSE cache[d]]

(* The array domainsToCheck after the loop over the array domains: a domain *)
(* is pushed at each of its places in domains, unless the cache holds a     *)
(* fresh entry for it (an expired entry is deleted at the first place, and  *)
(* missing at the next ones)                                                *)
Promises(domainList, cache, t) ==
  SelectSeq(domainList, LAMBDA d : ~(d \in DOMAIN cache /\ NotExpired(cache[d], t)))

(* From the call to the await of the lookups, for the array domainList;     *)
(* promises: the domain of each lookup started, in the order of the array   *)
batchInspectGreenHosting(domainList, ctx, cache, docs, stor) ==
  LET domains == Range(domainList)
      hits == CacheHits(domains, cache, now)
      domainsToCheck == DomainsToCheck(domains, cache, now)
      evicted == (domains \ hits) \cap DOMAIN cache
      results == [d \in hits |-> ResultOf(cache[d])]
      rec == [domains |-> domains, now |-> now, results |-> results,
              domainsToCheck |-> domainsToCheck, evicted |-> evicted,
              promises |-> Promises(domainList, cache, now),
              responses |-> EmptyMap, outcomes |-> EmptyMap, cleared |-> FALSE,
              ctx |-> ctx]
  IN /\ nCalls' = nCalls + 1
     /\ IF domainsToCheck = {}
          THEN /\ calls' = calls
               /\ Settle(nCalls + 1, rec, "fulfilled", results, MapDelete(cache, evicted), docs,
                      stor)
          ELSE /\ calls' = MapSet(calls, nCalls + 1, rec)
               /\ urlCache' = MapDelete(cache, evicted)
               /\ processedDocuments' = docs
               /\ storage' = stor
               /\ UNCHANGED <<returns, globalState>>

-----------------------------------------------------------------------------
(* metricsPanel.ts: MetricsPanel._runScan and _scanWorkspace *)

MAX_FILE_SIZE == 512 * 1024

(* A file findFiles has found: its path in the workspace, what stat says of *)
(* its size, whether stat and readFile succeed, and its decoded text        *)
WorkspaceFile(relativePath, size, readable, text) ==
  [relativePath |-> relativePath, size |-> size, readable |-> readable, text |-> text]

(* The results of the reads that are not undefined: a file is left out when *)
(* it is larger than MAX_FILE_SIZE and when stat or readFile throws         *)
RECURSIVE Reads(_)
Reads(files) ==
  IF files = <<>> THEN <<>>
  ELSE (IF Head(files).readable /\ Head(files).size <= MAX_FILE_SIZE
          THEN <<[domains |-> extractDomainsFromText(Head(files).text),
                  relativePath |-> Head(files).relativePath]>>
          ELSE <<>>) \o Reads(Tail(files))

(* domainMap, a Map in the order of its first set for each key, after one   *)
(* domain of the file at relativePath                                       *)
Occurrence(domainMap, domain, relativePath) ==
  IF \E k \in DOMAIN domainMap : domainMap[k].domain = domain
    THEN [k \in 1..Len(domainMap) |->
            IF domainMap[k].domain = domain
              THEN [domainMap[k] EXCEPT
                      !.occurrences = @ + 1,
                      !.files = IF relativePath \in Range(@) THEN @
                                ELSE Append(@, relativePath)]
              ELSE domainMap[k]]
    ELSE Append(domainMap, [domain |-> domain, occurrences |-> 1,
                            files |-> <<relativePath>>])

(* for (const domain of r.domains) *)
RECURSIVE Occurrences(_, _, _)
Occurrences(domainMap, domains, relativePath) ==
  IF domains = <<>> THEN domainMap
  ELSE Occurrences(Occurrence(domainMap, Head(domains), relativePath),
                   Tail(domains), relativePath)

(* for (const r of results) *)
RECURSIVE DomainMap(_, _)
DomainMap(domainMap, reads) ==
  IF reads = <<>> THEN domainMap
  ELSE DomainMap(Occurrences(domainMap, Head(reads).domains, Head(reads).relativePath),
                 Tail(reads))

(* [...domainMap.keys()] *)
RECURSIVE MapKeys(_)
MapKeys(domainMap) ==
  IF domainMap = <<>> THEN <<>>
  ELSE <<Head(domainMap).domain>> \o MapKeys(Tail(domainMap))

(* The row pushed for an entry of domainMap: result?.green ?? null *)
DomainMetric(info, apiResults) ==
  LET result == ResultFor(apiResults, info.domain)
  IN  [domain |-> info.domain,
       green |-> IF result.green \in {UNDEF, NULL} THEN NULL ELSE result.green,
       hostedBy |-> result.hostedBy,
       occurrences |-> info.occurrences,
       files |-> info.files]

(* The comparison of domainMetrics.sort is negative: a goes before b *)
SortsBefore(a, b) ==
  IF a.green = JsTrue /\ b.green # JsTrue THEN TRUE
  ELSE IF a.green # JsTrue /\ b.green = JsTrue THEN FALSE
  ELSE b.occurrences - a.occurrences < 0

(* Array.prototype.sort, which is stable: row goes before the first row it  *)
(* sorts before                                                             *)
RECURSIVE Insert(_, _)
Insert(sorted, row) ==
  IF sorted = <<>> THEN <<row>>
  ELSE IF SortsBefore(row, Head(sorted)) THEN <<row>> \o sorted
  ELSE <<Head(sorted)>> \o Insert(Tail(sorted), row)

RECURSIVE Sort(_, _)
Sort(rows, sorted) ==
  IF rows = <<>> THEN sorted ELSE Sort(Tail(rows), Insert(sorted, Head(rows)))

RECURSIVE Sum(_)
Sum(numbers) == IF numbers = <<>> THEN 0 ELSE Head(numbers) + Sum(Tail(numbers))

(* The count of green domains that takes every result but green = false *)
GreenCount_NotFalse(domainMap, apiResults) ==
  Cardinality({k \in DOMAIN domainMap :
                 ResultFor(apiResults, domainMap[k].domain).green # JsFalse})

(* greenCount: result?.green === true *)
GreenCount(domainMap, apiResults) ==
  Cardinality({k \in DOMAIN domainMap :
                 ResultFor(apiResults, domainMap[k].domain).green = JsTrue})

(* The WorkspaceMetrics _scanWorkspace returns *)
WorkspaceMetrics(domainMap, scannedFiles, apiResults) ==
  [totalUrls |-> Sum([k \in 1..Len(domainMap) |-> domainMap[k].occurrences]),
   uniqueDomains |-> Len(domainMap),
   greenDomains |-> GreenCount(domainMap, apiResults),
   notVerifiedDomains |-> Len(domainMap) - GreenCount(domainMap, apiResults),
   scannedFiles |-> scannedFiles,
   domains |-> Sort([k \in 1..Len(domainMap) |-> DomainMetric(domainMap[k], apiResults)],
                    <<>>)]

(* this._post(message) *)
Message(command, message) == [command |-> command, message |-> message]

ResultsMessage(metrics) == [command |-> "results", data |-> metrics]

(* What a scan holds. phase: it awaits findFiles and the reads ("finding"), *)
(* it awaits the classify call number call ("checking"), or it has ended    *)
(* with the message "results" or "error"                                    *)
Scan(phase, call, domainMap, scannedFiles, reads) ==
  [phase |-> phase, call |-> call, domainMap |-> domainMap,
   scannedFiles |-> scannedFiles, reads |-> reads]

(* _runScan after this._batchInspect has settled for the scan that awaits   *)
(* the call id: this._saveCacheToStorage() has run by then, and the scan    *)
(* posts its results; or the call has thrown, and the scan posts the error  *)
PanelResume(id, status, apiResults) ==
  LET waiting == {sid \in DOMAIN scans : scans[sid].phase = "checking" /\ scans[sid].call = id}
  IN  IF waiting = {} THEN UNCHANGED panelVars
      ELSE LET sid == CHOOSE s \in waiting : TRUE
               metrics == WorkspaceMetrics(scans[sid].domainMap, scans[sid].scannedFiles,
                                           apiResults)
           IN  /\ posted' = Append(posted, IF status = "fulfilled"
                                             THEN ResultsMessage(metrics)
                                             ELSE Message("error", "TypeError: fetch failed"))
               /\ scans' = [scans EXCEPT ![sid].phase = IF status = "fulfilled" THEN "results"
                                                        ELSE "error"]
               /\ nScans' = nScans

(* The lookup of domain d of call id settles; after the last one the call    *)
(* writes the responses to the results and to the cache, and returns         *)
LookupResolve(id, d, outcome) ==
  /\ running
  /\ id \in DOMAIN calls
  /\ d \in calls[id].domainsToCheck \ DOMAIN calls[id].responses
  /\ LET task == LookupTask(outcome)
         rec == [calls[id] EXCEPT !.outcomes = MapSet(@, d, outcome)]
         responses == MapSet(rec.responses, d, task.result)
         done == [rec EXCEPT !.responses = responses]
     IN IF task.settled = "rejected"
          THEN /\ calls' = MapDelete(calls, {id})
               /\ Settle(id, rec, "rejected", EmptyMap, urlCache, processedDocuments, storage)
               /\ PanelResume(id, "rejected", EmptyMap)
          ELSE IF DOMAIN responses = rec.domainsToCheck
            THEN /\ calls' = MapDelete(calls, {id})
                 /\ Settle(id, done, "fulfilled", MergeResults(rec.results, responses),
                           CacheWrites(urlCache, responses, rec.now), processedDocuments,
                           storage)
                 /\ PanelResume(id, "fulfilled", MergeResults(rec.results, responses))
            ELSE /\ calls' = [calls EXCEPT ![id] = done]
                 /\ UNCHANGED <<urlCache, returns, processedDocuments, globalState,
                                storage>>
                 /\ UNCHANGED panelVars
  /\ UNCHANGED <<now, running, document, workspace, clearsPending, nCalls, nTicks>>
  /\ UNCHANGED timerVars

-----------------------------------------------------------------------------
(* applyDecorations: from the call to the await of the classification *)

(* urlMatches.map(m => m.domain), without the Set that drops the repeats *)
UniqueDomains_All(urlMatches) == [i \in DOMAIN urlMatches |-> urlMatches[i].domain]

(* [...new Set(urlMatches.map(m => m.domain))]: the domains of the matches, *)
(* each once, in the order of their first match                             *)
UniqueDomains(urlMatches) ==
  LET first == SelectSeq([i \in DOMAIN urlMatches |-> i],
                         LAMBDA i : \A j \in 1..(i - 1) :
                                     urlMatches[j].domain # urlMatches[i].domain)
  IN  [k \in 1..Len(first) |-> urlMatches[first[k]].domain]

(* The body of applyDecorations, textHash and urlMatches being its         *)
(* constants of these names                                               *)
(* The test on the stored record left out: every run scans *)
Processed_Never(docs, docKey, textHash, version) == FALSE

(* cached && cached.hash === textHash && cached.version === document.version *)
Processed(docs, docKey, textHash, version) ==
  /\ docKey \in DOMAIN docs
  /\ docs[docKey].hash = textHash
  /\ docs[docKey].version = version

Decorate(doc, cache, docs, stor, textHash, urlMatches) ==
  LET docKey == doc.uri
      uniqueDomains == UniqueDomains(urlMatches)
      ctx == Context("editor", docKey, textHash, doc.version, urlMatches)
      skip == /\ urlCache' = cache
              /\ processedDocuments' = docs
              /\ storage' = stor
              /\ UNCHANGED <<calls, returns, globalState, nCalls>>
  IN IF doc.languageId \notin SUPPORTED_LANGUAGES THEN skip
     ELSE IF Processed(docs, docKey, textHash, doc.version) THEN skip
     ELSE IF Len(urlMatches) = 0
       THEN /\ urlCache' = cache
            /\ processedDocuments' = MapSet(docs, docKey, DocumentCacheOf(ctx, EmptyMap))
            /\ storage' = stor
            /\ UNCHANGED <<calls, returns, globalState, nCalls>>
     ELSE batchInspectGreenHosting(uniqueDomains, ctx, cache, docs, stor)

applyDecorations(doc, cache, docs, stor) ==
  Decorate(doc, cache, docs, stor, simpleHash(doc.text), extractUrlsWithRanges(doc))

-----------------------------------------------------------------------------
(* Handlers *)

(* activate(context), in a new extension host process; editor: there is an  *)
(* active text editor                                                       *)
Activate(editor) ==
  /\ ~running
  /\ running' = TRUE
  /\ LET restored == storage.mode # "throws"
         cache == IF restored THEN restoreCacheFromStorage(globalState, urlCache, now)
                              ELSE urlCache
         stor == IF restored THEN storage ELSE Logged(storage, "restore")
     IN IF editor
          THEN applyDecorations(document, cache, processedDocuments, stor)
          ELSE /\ urlCache' = cache
               /\ storage' = stor
               /\ UNCHANGED <<processedDocuments, calls, returns, globalState, nCalls>>
  /\ UNCHANGED <<now, document, workspace, clearsPending, nTicks>>
  /\ UNCHANGED timerVars
  /\ UNCHANGED panelVars

(* The extension host process ends: what it held in memory is gone, and the *)
(* next process starts from the module's initial values                     *)
Shutdown ==
  /\ running
  /\ running' = FALSE
  /\ urlCache' = EmptyMap
  /\ processedDocuments' = EmptyMap
  /\ calls' = EmptyMap
  /\ returns' = EmptyMap
  /\ clearsPending' = 0
  /\ storage' = [storage EXCEPT !.clearsRejecting = 0]
  /\ debounceTimeout' = NoTimeout
  /\ timers' = EmptyMap
  /\ posted' = <<>>
  /\ scans' = EmptyMap
  /\ UNCHANGED <<now, globalState, document, workspace, nCalls, nTicks, nTimers, nScans>>

onDidOpenTextDocument ==
  /\ running
  /\ applyDecorations(document, urlCache, processedDocuments, storage)
  /\ UNCHANGED <<now, running, document, workspace, clearsPending, nTicks>>
  /\ UNCHANGED timerVars
  /\ UNCHANGED panelVars

onDidChangeActiveTextEditor ==
  /\ running
  /\ applyDecorations(document, urlCache, processedDocuments, storage)
  /\ UNCHANGED <<now, running, document, workspace, clearsPending, nTicks>>
  /\ UNCHANGED timerVars
  /\ UNCHANGED panelVars

(* [...domainMap.keys()]: the keys of a map, each once *)
Keys(set) == CHOOSE seq \in [1..Cardinality(set) -> set] : Range(seq) = set

(* MetricsPanel._runScan, from the classification of the workspace's domains on *)
RunScan ==
  /\ running
  /\ batchInspectGreenHosting(Keys(workspace), Context("dashboard", UNDEF, 0, 0, <<>>),
                              urlCache, processedDocuments, storage)
  /\ UNCHANGED <<now, running, document, workspace, clearsPending, nTicks>>
  /\ UNCHANGED timerVars
  /\ UNCHANGED panelVars

(* _runScan without its catch: the exception of _scanWorkspace ends the     *)
(* scan, and no message tells the webview                                   *)
runScan_NoCatch(workspaceFolders) ==
  /\ running
  /\ nScans' = nScans + 1
  /\ IF workspaceFolders
       THEN /\ posted' = posted \o <<Message("scanning", UNDEF),
                                    Message("progress", "Finding files")>>
            /\ scans' = MapSet(scans, nScans + 1, Scan("finding", 0, <<>>, 0, <<>>))
       ELSE /\ posted' = Append(posted, Message("scanning", UNDEF))
            /\ scans' = MapSet(scans, nScans + 1, Scan("error", 0, <<>>, 0, <<>>))
  /\ UNCHANGED <<now, running, urlCache, globalState, processedDocuments, document,
                 workspace, calls, returns, clearsPending, nCalls, storage, nTicks>>
  /\ UNCHANGED timerVars

(* The webview sends ready or refresh: _runScan up to its first await.      *)
(* workspaceFolders: a workspace folder is open; without one _scanWorkspace *)
(* throws and the scan ends with the error                                  *)
runScan(workspaceFolders) ==
  /\ running
  /\ nScans' = nScans + 1
  /\ IF workspaceFolders
       THEN /\ posted' = posted \o <<Message("scanning", UNDEF),
                                    Message("progress", "Finding files")>>
            /\ scans' = MapSet(scans, nScans + 1, Scan("finding", 0, <<>>, 0, <<>>))
       ELSE /\ posted' = posted \o <<Message("scanning", UNDEF),
                                    Message("error", "Error: No workspace folder is open.")>>
            /\ scans' = MapSet(scans, nScans + 1, Scan("error", 0, <<>>, 0, <<>>))
  /\ UNCHANGED <<now, running, urlCache, globalState, processedDocuments, document,
                 workspace, calls, returns, clearsPending, nCalls, storage, nTicks>>
  /\ UNCHANGED timerVars

(* findFiles rejects: the scan ends with the error *)
findFilesRejects(sid) ==
  /\ running
  /\ sid \in DOMAIN scans
  /\ scans[sid].phase = "finding"
  /\ posted' = Append(posted, Message("error", "Error: findFiles failed"))
  /\ scans' = [scans EXCEPT ![sid].phase = "error"]
  /\ UNCHANGED <<now, running, urlCache, globalState, processedDocuments, document,
                 workspace, calls, returns, clearsPending, nCalls, storage, nTicks, nScans>>
  /\ UNCHANGED timerVars

(* _scanWorkspace from the files findFiles has found to the await of        *)
(* this._batchInspect(uniqueDomains); when no domain needs a lookup the     *)
(* call has its results at once, and _runScan saves and posts them          *)
scanWorkspace(sid, files) ==
  /\ running
  /\ sid \in DOMAIN scans
  /\ scans[sid].phase = "finding"
  /\ LET reads == Reads(files)
         domainMap == DomainMap(<<>>, reads)
         uniqueDomains == MapKeys(domainMap)
         progress == <<Message("progress", "Scanning " \o ToString(Len(files)) \o " files"),
                       Message("progress",
                               "Checking " \o ToString(Len(uniqueDomains)) \o " domains")>>
     IN  /\ batchInspectGreenHosting(uniqueDomains, Context("dashboard", UNDEF, 0, 0, <<>>),
                                     urlCache, processedDocuments, storage)
         /\ IF nCalls' \in DOMAIN calls'
              THEN /\ posted' = posted \o progress
                   /\ scans' = MapSet(scans, sid,
                                      Scan("checking", nCalls', domainMap, Len(reads), reads))
              ELSE /\ posted' = (posted \o progress) \o
                                  <<ResultsMessage(
                                      WorkspaceMetrics(domainMap, Len(reads),
                                                       returns'[nCalls'].results))>>
                   /\ scans' = MapSet(scans, sid,
                                      Scan("results", nCalls', domainMap, Len(reads), reads))
  /\ UNCHANGED <<now, running, document, workspace, clearsPending, nTicks, nScans>>
  /\ UNCHANGED timerVars

(* clearCacheCommand without its globalState.update *)
ClearCache_MemoryOnly ==
  /\ running
  /\ clearsPending < MaxPendingClears
  /\ urlCache' = EmptyMap
  /\ processedDocuments' = EmptyMap
  /\ clearsPending' = clearsPending + 1
  /\ returns' = Stale(returns)
  /\ UNCHANGED <<now, running, globalState, document, workspace, calls, nCalls,
                 storage, nTicks>>
  /\ UNCHANGED timerVars
  /\ UNCHANGED panelVars

(* clearCacheCommand, up to its await of globalState.update; pending: the   *)
(* calls that await their lookups meanwhile, which the command leaves alone *)
ClearCacheWith(pending) ==
  /\ running
  /\ clearsPending + storage.clearsRejecting < MaxPendingClears
  /\ urlCache' = EmptyMap
  /\ processedDocuments' = EmptyMap
  /\ CASE storage.mode = "ok" ->
            /\ globalState' = MapSet(globalState, CACHE_STORAGE_KEY, EmptyMap)
            /\ clearsPending' = clearsPending + 1
            /\ storage' = storage
       [] storage.mode = "throws" ->
            /\ storage' = Aborted(storage, "clear")
            /\ UNCHANGED <<globalState, clearsPending>>
       [] storage.mode = "rejects" ->
            /\ storage' = [Unhandled(storage, "clear") EXCEPT !.clearsRejecting = @ + 1]
            /\ UNCHANGED <<globalState, clearsPending>>
  /\ returns' = Stale(returns)
  /\ calls' = pending
  /\ UNCHANGED <<now, running, document, workspace, nCalls, nTicks>>
  /\ UNCHANGED timerVars
  /\ UNCHANGED panelVars

ClearCache == ClearCacheWith(calls)

(* History: each call that awaits its lookups while clearCacheCommand runs  *)
(* was made before the clear and goes on after it (cleared)                 *)
ClearedUnder(pending) ==
  [id \in DOMAIN pending |-> [pending[id] EXCEPT !.cleared = TRUE]]

(* clearCacheCommand, with the history of the calls under way *)
ClearCacheInFlight == ClearCacheWith(ClearedUnder(calls))

(* clearCacheCommand, after globalState.update has resolved *)
ClearCacheResume(editor) ==
  /\ running
  /\ clearsPending > 0
  /\ clearsPending' = clearsPending - 1
  /\ IF editor
       THEN applyDecorations(document, urlCache, processedDocuments, storage)
       ELSE UNCHANGED <<urlCache, processedDocuments, calls, returns, globalState,
                        nCalls, storage>>
  /\ UNCHANGED <<now, running, document, workspace, nTicks>>
  /\ UNCHANGED timerVars
  /\ UNCHANGED panelVars

(* clearCacheCommand: the promise it awaits rejects, and the command ends *)
(* there                                                                 *)
ClearCacheRejected ==
  /\ running
  /\ storage.clearsRejecting > 0
  /\ storage' = [Aborted(storage, "clear") EXCEPT !.clearsRejecting = @ - 1]
  /\ UNCHANGED <<now, running, urlCache, globalState, processedDocuments, document,
                 workspace, calls, returns, clearsPending, nCalls, nTicks>>
  /\ UNCHANGED timerVars
  /\ UNCHANGED panelVars

(* The Memento starts to fail, or works again *)
StorageTurns(mode) ==
  /\ mode \in StorageModes \ {storage.mode}
  /\ storage' = [storage EXCEPT !.mode = mode]
  /\ UNCHANGED <<now, running, urlCache, globalState, processedDocuments, document,
                 workspace, calls, returns, clearsPending, nCalls, nTicks>>
  /\ UNCHANGED timerVars
  /\ UNCHANGED panelVars

(* Time passes *)
Tick ==
  /\ nTicks < MaxTicks
  /\ nTicks' = nTicks + 1
  /\ now' = now + TickStep(nTicks)
  /\ returns' = Stale(returns)
  /\ UNCHANGED <<running, urlCache, globalState, processedDocuments, document,
                 workspace, calls, clearsPending, nCalls, storage>>
  /\ UNCHANGED timerVars
  /\ UNCHANGED panelVars

-----------------------------------------------------------------------------
(* The system: every handler, a service that fails a lookup or answers it   *)
(* with a green host                                                        *)

InitWith(documents, workspaces) ==
  /\ now = 0
  /\ running = FALSE
  /\ urlCache = EmptyMap
  /\ globalState = EmptyMap
  /\ processedDocuments = EmptyMap
  /\ document \in documents
  /\ workspace \in workspaces
  /\ calls = EmptyMap
  /\ returns = EmptyMap
  /\ clearsPending = 0
  /\ nCalls = 0
  /\ storage = NoFaults
  /\ nTicks = 0
  /\ debounceTimeout = NoTimeout
  /\ timers = EmptyMap
  /\ nTimers = 0
  /\ posted = <<>>
  /\ scans = EmptyMap
  /\ nScans = 0

Init == InitWith(Documents, Workspaces)

ServiceOutcomes ==
  {o \in FetchOutcomes : o.type = "reject" \/ (o.type = "json" /\ o.green = JsTrue)}

Next ==
  \/ Activate(FALSE)
  \/ nCalls < MaxCalls /\ Activate(TRUE)
  \/ Shutdown
  \/ nCalls < MaxCalls /\ onDidOpenTextDocument
  \/ nCalls < MaxCalls /\ onDidChangeActiveTextEditor
  \/ nCalls < MaxCalls /\ RunScan
  \/ \E id \in DOMAIN calls, d \in Domains, outcome \in ServiceOutcomes :
       LookupResolve(id, d, outcome)
  \/ ClearCache
  \/ ClearCacheResume(FALSE)
  \/ nCalls < MaxCalls /\ ClearCacheResume(TRUE)
  \/ Tick

Spec == Init /\ [][Next]_vars

(* The dashboard alone, every answer of the service: the scans of a        *)
(* workspace with two domains, their lookups settling in any order          *)

LookupInit ==
  InitWith({doc \in Documents : doc.languageId \notin SUPPORTED_LANGUAGES}, {Domains})

LookupNext ==
  \/ Activate(FALSE)
  \/ nCalls < MaxLookupCalls /\ RunScan
  \/ \E id \in DOMAIN calls, d \in Domains, outcome \in FetchOutcomes :
       LookupResolve(id, d, outcome)
  \/ Tick

LookupSpec == LookupInit /\ [][LookupNext]_vars

(* The dashboard alone, refreshed while its scans are under way *)

OverlapNext ==
  \/ Activate(FALSE)
  \/ nCalls < MaxOverlapCalls /\ RunScan
  \/ \E id \in DOMAIN calls, d \in Domains, outcome \in ServiceOutcomes :
       LookupResolve(id, d, outcome)
  \/ Tick

OverlapSpec == Init /\ [][OverlapNext]_vars

-----------------------------------------------------------------------------
(* Every handler but the editor events, a Memento that may fail *)

StorageNext ==
  \/ Activate(FALSE)
  \/ nCalls < MaxStorageCalls /\ Activate(TRUE)
  \/ Shutdown
  \/ nCalls < MaxStorageCalls /\ RunScan
  \/ \E id \in DOMAIN calls, d \in Domains, outcome \in ServiceOutcomes :
       LookupResolve(id, d, outcome)
  \/ ClearCache
  \/ ClearCacheResume(FALSE)
  \/ nCalls < MaxStorageCalls /\ ClearCacheResume(TRUE)
  \/ ClearCacheRejected
  \/ \E mode \in StorageModes : StorageTurns(mode)

StorageSpec == Init /\ [][StorageNext]_vars

(* The editor alone, every answer of the service *)

EditorInit ==
  InitWith({doc \in Documents : doc.languageId \in SUPPORTED_LANGUAGES}, Workspaces)

EditorNext ==
  \/ Activate(FALSE)
  \/ nCalls < MaxEditorCalls /\ Activate(TRUE)
  \/ nCalls < MaxEditorCalls /\ onDidChangeActiveTextEditor
  \/ \E id \in DOMAIN calls, d \in Domains, outcome \in FetchOutcomes :
       LookupResolve(id, d, outcome)
  \/ Tick

EditorSpec == EditorInit /\ [][EditorNext]_vars

-----------------------------------------------------------------------------
(* The extraction on its own: the editor opens one of the texts below, in a *)
(* supported language                                                       *)

(* see api.foo.io for details *)
SeeApiText ==
  <<"s", "e", "e", " ", "a", "p", "i", ".", "f", "o", "o", ".", "i", "o",
    " ", "f", "o", "r", " ", "d", "e", "t", "a", "i", "l", "s">>

(* visit https://example-green.dev/page?x=1 today *)
VisitText ==
  <<"v", "i", "s", "i", "t", " ", "h", "t", "t", "p", "s", ":", "/", "/",
    "e", "x", "a", "m", "p", "l", "e", "-", "g", "r", "e", "e", "n", ".",
    "d", "e", "v", "/", "p", "a", "g", "e", "?", "x", "=", "1", " ", "t",
    "o", "d", "a", "y">>

(* logger.info(url) *)
LoggerText ==
  <<"l", "o", "g", "g", "e", "r", ".", "i", "n", "f", "o", "(", "u", "r",
    "l", ")">>

(* a.io https://b.io *)
BareThenUrlText ==
  <<"a", ".", "i", "o", " ", "h", "t", "t", "p", "s", ":", "/", "/", "b",
    ".", "i", "o">>

(* foo.io/x?u=https://bar.io *)
UrlInQueryText ==
  <<"f", "o", "o", ".", "i", "o", "/", "x", "?", "u", "=", "h", "t", "t",
    "p", "s", ":", "/", "/", "b", "a", "r", ".", "i", "o">>

(* use Object.is here *)
ObjectIsText ==
  <<"u", "s", "e", " ", "O", "b", "j", "e", "c", "t", ".", "i", "s", " ",
    "h", "e", "r", "e">>

(* docs at React.dev *)
ReactText ==
  <<"d", "o", "c", "s", " ", "a", "t", " ", "R", "e", "a", "c", "t", ".",
    "d", "e", "v">>

(* see console.log and app.io *)
KeywordText ==
  <<"s", "e", "e", " ", "c", "o", "n", "s", "o", "l", "e", ".", "l", "o",
    "g", " ", "a", "n", "d", " ", "a", "p", "p", ".", "i", "o">>

(* open foo.io(x) *)
CallText ==
  <<"o", "p", "e", "n", " ", "f", "o", "o", ".", "i", "o", "(", "x", ")">>

(* _.foo.io and my_x.bar.io *)
ChainText ==
  <<"_", ".", "f", "o", "o", ".", "i", "o", " ", "a", "n", "d", " ", "m",
    "y", "_", "x", ".", "b", "a", "r", ".", "i", "o">>

(* https://foo.io:8080/p, next *)
PortText ==
  <<"h", "t", "t", "p", "s", ":", "/", "/", "f", "o", "o", ".", "i", "o",
    ":", "8", "0", "8", "0", "/", "p", ",", " ", "n", "e", "x", "t">>

(* see https://foo.io, next *)
CommaText ==
  <<"s", "e", "e", " ", "h", "t", "t", "p", "s", ":", "/", "/", "f", "o",
    "o", ".", "i", "o", ",", " ", "n", "e", "x", "t">>

(* const u = "https://www.Foo-Bar.io/p";\nfetch('b.com') *)
TwoLineText ==
  <<"c", "o", "n", "s", "t", " ", "u", " ", "=", " ", "\"", "h", "t", "t",
    "p", "s", ":", "/", "/", "w", "w", "w", ".", "F", "o", "o", "-", "B",
    "a", "r", ".", "i", "o", "/", "p", "\"", ";", "\n", "f", "e", "t", "c",
    "h", "(", "'", "b", ".", "c", "o", "m", "'", ")">>

(* go to www.foo.io/docs or bar.dev *)
PlainText ==
  <<"g", "o", " ", "t", "o", " ", "w", "w", "w", ".", "f", "o", "o", ".",
    "i", "o", "/", "d", "o", "c", "s", " ", "o", "r", " ", "b", "a", "r",
    ".", "d", "e", "v">>

(* link, and http://a.com/x between backquotes *)
TickText ==
  <<"l", "i", "n", "k", " ", Backquote, "h", "t", "t", "p", ":", "/", "/",
    "a", ".", "c", "o", "m", "/", "x", Backquote>>

(* Foo.COM www.foo.com https://www.foo.com/x *)
CaseWwwText ==
  <<"F", "o", "o", ".", "C", "O", "M", " ", "w", "w", "w", ".", "f", "o",
    "o", ".", "c", "o", "m", " ", "h", "t", "t", "p", "s", ":", "/", "/",
    "w", "w", "w", ".", "f", "o", "o", ".", "c", "o", "m", "/", "x">>

(* HTTP://WWW.Foo.Com or www.com *)
UpperWwwText ==
  <<"H", "T", "T", "P", ":", "/", "/", "W", "W", "W", ".", "F", "o", "o",
    ".", "C", "o", "m", " ", "o", "r", " ", "w", "w", "w", ".", "c", "o", "m">>

(* get.docker.sh foo.sh package.json https://test.com *)
DenylistText ==
  <<"g", "e", "t", ".", "d", "o", "c", "k", "e", "r", ".", "s", "h", " ",
    "f", "o", "o", ".", "s", "h", " ", "p", "a", "c", "k", "a", "g", "e",
    ".", "j", "s", "o", "n", " ", "h", "t", "t", "p", "s", ":", "/", "/",
    "t", "e", "s", "t", ".", "c", "o", "m">>

(* 1.2.3.4.com mylocalhost.io https://foo.xyz http://localhost.dev ok.dev *)
AddressText ==
  <<"1", ".", "2", ".", "3", ".", "4", ".", "c", "o", "m", " ", "m", "y",
    "l", "o", "c", "a", "l", "h", "o", "s", "t", ".", "i", "o", " ", "h",
    "t", "t", "p", "s", ":", "/", "/", "f", "o", "o", ".", "x", "y", "z",
    " ", "h", "t", "t", "p", ":", "/", "/", "l", "o", "c", "a", "l", "h",
    "o", "s", "t", ".", "d", "e", "v", " ", "o", "k", ".", "d", "e", "v">>

ExtractTexts ==
  {SeeApiText, VisitText, LoggerText, BareThenUrlText,
   UrlInQueryText, ObjectIsText, ReactText, KeywordText,
   CallText, ChainText, PortText, TwoLineText,
   PlainText, TickText, CommaText, CaseWwwText, UpperWwwText,
   DenylistText, AddressText}

ExtractDocuments == {Document("typescript", text) : text \in ExtractTexts}

ExtractInit == InitWith(ExtractDocuments, Workspaces)

ExtractNext ==
  \/ Activate(FALSE)
  \/ nCalls < MaxExtractCalls /\ Activate(TRUE)
  \/ nCalls < MaxExtractCalls /\ onDidChangeActiveTextEditor
  \/ \E id \in DOMAIN calls : \E d \in calls[id].domainsToCheck, outcome \in ServiceOutcomes :
       LookupResolve(id, d, outcome)
  \/ Tick

ExtractSpec == ExtractInit /\ [][ExtractNext]_vars

---------
(* Properties *)

(* The classify call number id as its caller sees it: pending while its     *)
(* lookups are awaited, then as it has settled                              *)
CallView(id) ==
  IF id \in DOMAIN calls
    THEN [domains |-> calls[id].domains, results |-> calls[id].results,
          domainsToCheck |-> calls[id].domainsToCheck, status |-> "pending"]
    ELSE [domains |-> returns[id].domains, results |-> returns[id].results,
          domainsToCheck |-> returns[id].domainsToCheck, status |-> returns[id].status]

(* The call made last; NewCall' in a step that makes a call is that call *)
NewCall == CallView(nCalls)

(* The step makes a classify call *)
CallMade == nCalls' = nCalls + 1

(* The calls whose last lookup settles in the step *)
Settling == DOMAIN calls \cap DOMAIN returns'

(* The durable copy of the cache *)
Stored == MementoGet(globalState, CACHE_STORAGE_KEY)

Age(entry) == now - entry.timestamp

Failed(outcome) == outcome.type # "json"

(* C1: a classify call never returns from a cache entry of age >= 7 days:   *)
(* the call deletes the entry from the in-memory cache and looks the domain *)
(* up, and what it returns for the domain is what the lookup gave; nothing  *)
(* but a call removes an entry because of its age: the passing of time      *)
(* leaves the cache as it is                                                *)
C1_LazyExpiry ==
  [][ /\ (CallMade /\ running) =>
           \A d \in NewCall'.domains :
             (d \in DOMAIN urlCache /\ Age(urlCache[d]) >= CACHE_EXPIRY) =>
               /\ d \notin DOMAIN urlCache'
               /\ d \in NewCall'.domainsToCheck
               /\ d \notin DOMAIN NewCall'.results
               /\ NewCall'.status = "pending"
      /\ \A id \in Settling : \A d \in returns'[id].domainsToCheck :
           /\ d \in DOMAIN returns'[id].outcomes
           /\ returns'[id].results[d].green \in {returns'[id].outcomes[d].green, NULL}
           /\ returns'[id].results[d].green = NULL <=> Failed(returns'[id].outcomes[d])
      /\ (now' # now) => urlCache' = urlCache
    ]_vars

(* C1 witness: a call has found an expired entry, deleted it, and awaits the lookup *)
C1_Witness ==
  \E id \in DOMAIN calls : \E d \in calls[id].evicted :
    d \in calls[id].domainsToCheck /\ d \notin DOMAIN urlCache

(* C2: a classify call issues no lookup for an input domain whose cache     *)
(* entry is younger than 7 days, and returns the entry's green, hostedBy    *)
(* and error for it                                                         *)
C2_FreshHit ==
  [][ /\ (CallMade /\ running) =>
           \A d \in NewCall'.domains :
             (d \in DOMAIN urlCache /\ Age(urlCache[d]) < CACHE_EXPIRY) =>
               /\ d \notin NewCall'.domainsToCheck
               /\ NewCall'.results[d] = [green |-> urlCache[d].green,
                                         hostedBy |-> urlCache[d].hostedBy,
                                         error |-> urlCache[d].error]
      /\ \A id \in Settling :
           /\ DOMAIN returns'[id].outcomes = calls[id].domainsToCheck
           /\ \A d \in DOMAIN calls[id].results :
                returns'[id].results[d] = calls[id].results[d]
    ]_vars

(* C2 witness: a call has returned a green host from the cache, without a lookup *)
C2_Witness ==
  \E id \in DOMAIN returns : \E d \in returns[id].domains \ returns[id].domainsToCheck :
    /\ returns[id].status = "fulfilled"
    /\ returns[id].results[d].green = JsTrue
    /\ returns[id].results[d].hostedBy = "Hetzner"

(* C3: the map a classify call returns has exactly the input domains as keys *)
C3_ExactKeys ==
  \A id \in DOMAIN returns :
    returns[id].status = "fulfilled" => DOMAIN returns[id].results = returns[id].domains

(* C3 witness: a call has returned for two domains, one from the cache, the *)
(* other looked up without success                                          *)
C3_Witness ==
  \E id \in DOMAIN returns :
    /\ returns[id].status = "fulfilled"
    /\ returns[id].domains = Domains
    /\ \E d \in returns[id].domainsToCheck : returns[id].results[d].green = NULL
    /\ returns[id].domainsToCheck # Domains

(* C4: a domain whose lookup fails by a transport error or a non-success     *)
(* status is returned with green = null and a non-empty error, a domain the *)
(* service answers is returned with the service's green and hosted_by,      *)
(* whatever the order in which the lookups of the call settle               *)
C4_FailureBesideSuccess ==
  \A id \in DOMAIN returns : \A d \in DOMAIN returns[id].outcomes :
    LET outcome == returns[id].outcomes[d]
    IN /\ d \in DOMAIN returns[id].results
       /\ outcome.type \in {"reject", "status"} =>
            /\ returns[id].results[d].green = NULL
            /\ returns[id].results[d].error \notin {UNDEF, NULL, ""}
       /\ outcome.type = "json" =>
            /\ returns[id].results[d].green = outcome.green
            /\ returns[id].results[d].hostedBy = outcome.hosted_by

(* C4 witness: one call has returned a failed domain and a green one *)
C4_Witness ==
  \E id \in DOMAIN returns : \E d, e \in DOMAIN returns[id].outcomes :
    /\ returns[id].outcomes[d].type = "reject"
    /\ returns[id].results[d].green = NULL
    /\ returns[id].outcomes[e].type = "json"
    /\ returns[id].results[e].hostedBy = "Hetzner"

(* C5: a classify call never rejects, whatever lookups fail (transport       *)
(* error, 429, another status, a body that is not JSON): it fulfils with a  *)
(* map in which every failure is an entry with green = null and an error    *)
C5_FailuresAreData ==
  \A id \in DOMAIN returns :
    /\ returns[id].status = "fulfilled"
    /\ \A d \in DOMAIN returns[id].outcomes :
         Failed(returns[id].outcomes[d]) =>
           /\ d \in DOMAIN returns[id].results
           /\ returns[id].results[d].green = NULL
           /\ returns[id].results[d].error # UNDEF

(* C5 witness: a call has returned although none of its lookups succeeded *)
C5_Witness ==
  \E id \in DOMAIN returns : \E d, e \in returns[id].domainsToCheck :
    /\ returns[id].status = "fulfilled"
    /\ returns[id].outcomes[d].type = "badjson"
    /\ returns[id].outcomes[e].status = 429

(* C6: a classify call made right after a call with the same domains has     *)
(* returned (no call made in between, the clock not advanced since the      *)
(* first call was made, the cache not cleared since it returned) issues no  *)
(* lookup and returns what the first call returned, failures included       *)
C6_Idempotent ==
  [][ ( /\ CallMade
        /\ nCalls \in DOMAIN returns
        /\ returns[nCalls].current
        /\ returns[nCalls].status = "fulfilled"
        /\ NewCall'.domains = returns[nCalls].domains )
      => /\ NewCall'.domainsToCheck = {}
         /\ NewCall'.results = returns[nCalls].results
    ]_vars

(* C7: a failed lookup is written to the cache as green = null with its     *)
(* error, stamped as a successful one is; a later call is served that entry *)
(* without a lookup while its age is under 7 days, and looks the domain up  *)
(* once the age has reached 7 days                                          *)
C7_FailureCached ==
  [][ /\ \A id \in Settling : \A d \in calls[id].domainsToCheck :
           /\ d \in DOMAIN urlCache'
           /\ urlCache'[d].timestamp = calls[id].now
           /\ Failed(returns'[id].outcomes[d]) =>
                /\ urlCache'[d].green = NULL
                /\ urlCache'[d].error # UNDEF
                /\ urlCache'[d].error = returns'[id].results[d].error
      /\ (CallMade /\ running) =>
           \A d \in NewCall'.domains :
             (d \in DOMAIN urlCache /\ urlCache[d].green = NULL) =>
               /\ d \in NewCall'.domainsToCheck <=> Age(urlCache[d]) >= CACHE_EXPIRY
               /\ d \notin NewCall'.domainsToCheck =>
                    /\ NewCall'.results[d].green = NULL
                    /\ NewCall'.results[d].error = urlCache[d].error
    ]_vars

(* C7 witness: a call has returned a failure from the cache, without a lookup *)
C7_Witness ==
  \E id \in DOMAIN returns : \E d \in returns[id].domains \ returns[id].domainsToCheck :
    /\ returns[id].status = "fulfilled"
    /\ returns[id].results[d].green = NULL
    /\ returns[id].results[d].error # UNDEF

(* C8: when a scan's classify call returns, what its lookups gave is in the *)
(* durable copy; the call activation makes in a new process issues no       *)
(* lookup for a domain whose stored entry is younger than 7 days, and       *)
(* returns the stored classification                                        *)
C8_PersistedAcrossRestart ==
  [][ /\ \A id \in Settling : \A d \in calls[id].domainsToCheck :
           /\ d \in DOMAIN Stored'
           /\ Stored'[d].timestamp = calls[id].now
           /\ Stored'[d].green = returns'[id].results[d].green
           /\ Stored'[d].hostedBy = returns'[id].results[d].hostedBy
           /\ Stored'[d].error = returns'[id].results[d].error
      /\ (CallMade /\ ~running) =>
           \A d \in NewCall'.domains :
             (d \in DOMAIN Stored /\ Age(Stored[d]) < CACHE_EXPIRY) =>
               /\ d \notin NewCall'.domainsToCheck
               /\ NewCall'.results[d].green = Stored[d].green
               /\ NewCall'.results[d].hostedBy = Stored[d].hostedBy
               /\ NewCall'.results[d].error = Stored[d].error
    ]_vars

(* C8 witness: every call of a process has returned without a lookup, one   *)
(* of them a green host: the cache it started with came from the durable    *)
(* copy                                                                     *)
C8_Witness ==
  /\ running
  /\ calls = EmptyMap
  /\ \A id \in DOMAIN returns :
       returns[id].status = "fulfilled" /\ returns[id].domainsToCheck = {}
  /\ \E id \in DOMAIN returns : \E d \in returns[id].domains :
       returns[id].results[d].green = JsTrue

(* No classify call awaits lookups, and the cache and its durable copy are empty *)
Cleared ==
  running /\ calls = EmptyMap /\ urlCache = EmptyMap /\ Stored = EmptyMap

(* C9: the clear-cache command empties the in-memory cache and stores an    *)
(* empty map as the durable copy; with no call awaiting lookups the cache   *)
(* stays empty until the next classify call, which looks up every domain    *)
(* it is given                                                              *)
C9_ClearEmptiesBoth ==
  [][ /\ (clearsPending' = clearsPending + 1) =>
           /\ urlCache' = EmptyMap
           /\ MementoHas(globalState', CACHE_STORAGE_KEY)
           /\ globalState'[CACHE_STORAGE_KEY] = EmptyMap
           /\ calls = EmptyMap => Cleared'
      /\ (Cleared /\ running' /\ ~CallMade) => Cleared'
      /\ (Cleared /\ CallMade) =>
           /\ NewCall'.domainsToCheck = NewCall'.domains
           /\ NewCall'.results = EmptyMap
    ]_vars

(* C9 witness: the first call of the process has cached what it looked up;  *)
(* with the clock where it was, the second call looks the same domain up,   *)
(* and the durable copy is an empty map                                     *)
C9_Witness ==
  /\ nTicks = 0
  /\ MementoHas(globalState, CACHE_STORAGE_KEY)
  /\ globalState[CACHE_STORAGE_KEY] = EmptyMap
  /\ \E id \in DOMAIN returns : \E id2 \in DOMAIN calls :
       /\ returns[id].status = "fulfilled"
       /\ returns[id].domainsToCheck \cap calls[id2].domainsToCheck # {}

(* C10: activation loads from the durable copy exactly the entries younger  *)
(* than 7 days at that time, as they are stored, and the call it makes      *)
(* returns nothing from an older one                                        *)
C10_HydrationDropsExpired ==
  [][ (~running /\ running') =>
        LET fresh == {d \in DOMAIN Stored : Age(Stored[d]) < CACHE_EXPIRY}
        IN /\ DOMAIN urlCache' = fresh
           /\ \A d \in fresh : urlCache'[d] = Stored[d]
           /\ CallMade => DOMAIN NewCall'.results \subseteq fresh
    ]_vars

(* C10 witness: a process that has made no call yet holds one stored entry  *)
(* in its cache and lacks another, which is 7 days old                      *)
C10_Witness ==
  /\ running
  /\ calls = EmptyMap
  /\ returns = EmptyMap
  /\ urlCache # EmptyMap
  /\ \E d \in DOMAIN Stored : Age(Stored[d]) >= CACHE_EXPIRY /\ d \notin DOMAIN urlCache

(* The lookups that have been returned: call, domain, fetch outcome, result *)
Answered ==
  UNION {{[outcome |-> returns[id].outcomes[d], result |-> returns[id].results[d]] :
            d \in DOMAIN returns[id].outcomes} : id \in DOMAIN returns}

RateLimited(outcome) == outcome.type = "status" /\ outcome.status = 429

(* C12: a lookup answered with status 429 is returned as green = null with   *)
(* the message that names rate limiting, and no lookup that failed in       *)
(* another way (another status, a transport error, a body that is not JSON) *)
(* is returned with the same message                                        *)
C12_RateLimitDistinct ==
  \A a \in Answered :
    RateLimited(a.outcome) =>
      /\ a.result.green = NULL
      /\ a.result.error = "Rate limited - too many requests"
      /\ \A b \in Answered :
           (Failed(b.outcome) /\ ~RateLimited(b.outcome)) => b.result.error # a.result.error

(* C12 witness: one call has returned a domain answered with 429 beside one *)
(* answered with 500                                                        *)
C12_Witness ==
  \E id \in DOMAIN returns : \E d, e \in DOMAIN returns[id].outcomes :
    /\ returns[id].outcomes[d].status = 429
    /\ returns[id].outcomes[e].status = 500
    /\ returns[id].results[d].error # returns[id].results[e].error

(* C13: a lookup answered with a success status and a body that is not JSON, *)
(* or a JSON body without the green field, is returned and cached as green  *)
(* = null with an error, never as a result without error                    *)
C13_MalformedBodyIsFailure ==
  \A id \in DOMAIN returns : \A d \in DOMAIN returns[id].outcomes :
    LET outcome == returns[id].outcomes[d]
    IN (outcome.type = "badjson" \/ (outcome.type = "json" /\ outcome.green = UNDEF)) =>
         /\ returns[id].results[d].green = NULL
         /\ returns[id].results[d].error # UNDEF
         /\ d \in DOMAIN urlCache =>
              (urlCache[d].green \in {JsTrue, JsFalse} \/ urlCache[d].error # UNDEF)

(* C11: a failure of the durable storage (while hydrating, while saving the *)
(* cache, while storing the empty map of the clear-cache command) is        *)
(* logged and does not end the operation it happens in                      *)
C11_StorageFailureTolerated ==
  /\ storage.failed \subseteq storage.logged
  /\ storage.aborted = {}

(* The ranges of a sequence of decoration options *)
RangesOf(decorations) == {decorations[i].range : i \in DOMAIN decorations}

(* C20: when the decorations of a document are computed, every match gets   *)
(* one decoration, in the green set if and only if the result of its domain *)
(* has green = true and in the not-verified set otherwise; the hover of a   *)
(* not-verified match holds the error of its result when there is one, and  *)
(* is without it what a result with green = false gives                     *)
C20_DecorationPartition ==
  [][ \A id \in Settling :
        calls[id].ctx.caller = "editor" =>
          LET matches == calls[id].ctx.matches
              results == returns'[id].results
              green == processedDocuments'[calls[id].ctx.docKey].greenRanges
              other == processedDocuments'[calls[id].ctx.docKey].notVerifiedRanges
          IN /\ Len(green) + Len(other) = Len(matches)
             /\ RangesOf(green) \cap RangesOf(other) = {}
             /\ \A i \in DOMAIN matches :
                  /\ matches[i].range \in RangesOf(green) \cup RangesOf(other)
                  /\ matches[i].range \in RangesOf(green)
                       <=> results[matches[i].domain].green = JsTrue
             /\ \A k \in DOMAIN other : \E i \in DOMAIN matches :
                  LET result == results[matches[i].domain]
                      detail == "*Could not verify: " \o result.error \o "*\n\n"
                      plain == [green |-> JsFalse, hostedBy |-> UNDEF, error |-> UNDEF]
                  IN /\ matches[i].range = other[k].range
                     /\ result.green = NULL =>
                          \E n \in DOMAIN other[k].hoverMessage :
                            other[k].hoverMessage[n] = detail
                     /\ SelectSeq(other[k].hoverMessage, LAMBDA line : line # detail)
                          = NotVerifiedHover(matches[i].domain, plain)
    ]_vars

(* C20 witness: a document is decorated with a green match, a match whose   *)
(* lookup failed and, between them, a match of the green domain again       *)
C20_Witness ==
  \E key \in DOMAIN processedDocuments :
    /\ Len(processedDocuments[key].greenRanges) = 2
    /\ Len(processedDocuments[key].notVerifiedRanges) = 1
    /\ \E id \in DOMAIN returns : \E d \in DOMAIN returns[id].results :
         returns[id].results[d].green = NULL

-----------------------------------------------------------------------------
(* The extraction *)

(* The offsets of a match in the text of its document *)
StartOffset(text, m) == offsetAt(text, m.range.start)

EndOffset(text, m) == offsetAt(text, m.range.end)

(* What applyDecorations has extracted from the document: the matches a     *)
(* classify call of the editor was made for, or none when the document was  *)
(* recorded without any decoration                                          *)
Extracted ==
  {calls[id].ctx.matches : id \in {i \in DOMAIN calls : calls[i].ctx.caller = "editor"}}
    \cup {<<>> : key \in {k \in DOMAIN processedDocuments :
                            /\ Len(processedDocuments[k].greenRanges) = 0
                            /\ Len(processedDocuments[k].notVerifiedRanges) = 0}}

(* The hits of the bare-domain pattern in a text, and of the URL pattern *)
BareCandidates(text) == Range(DomainExec(text, 1))

UrlCandidates(text) == Range(FullUrlExec(text, 1))

(* The hostname of a hit as the text has it, and its first label *)
HostText(text, c) == Slice(text, c.host.start, c.host.end)

FirstLabel(text, c) == Join(Split(HostText(text, c), ".")[1])

(* The matches among matches that have the span of the hit c *)
AtSpan(text, matches, c) ==
  {k \in DOMAIN matches : /\ StartOffset(text, matches[k]) = c.index - 1
                          /\ EndOffset(text, matches[k]) = c.end - 1}

(* The first position from i on that holds none of the characters a path is *)
(* made of, or the position after the text                                  *)
FirstTerminator(text, i) ==
  CHOOSE e \in i..(Len(text) + 1) :
    /\ e = Len(text) + 1 \/ text[e] \notin PathChars
    /\ \A k \in i..(e - 1) : text[k] \in PathChars

(* C14: the matches extracted from a text are in non-decreasing order of    *)
(* their start offsets, URLs and bare domains alike                         *)
C14_AscendingOrder ==
  \A matches \in Extracted : \A i, j \in DOMAIN matches :
    i < j => StartOffset(document.text, matches[i]) <= StartOffset(document.text, matches[j])

(* C15: no two matches extracted from a text have overlapping spans *)
C15_NoOverlap ==
  \A matches \in Extracted : \A i, j \in DOMAIN matches :
    i # j => ~ /\ StartOffset(document.text, matches[i]) < EndOffset(document.text, matches[j])
               /\ StartOffset(document.text, matches[j]) < EndOffset(document.text, matches[i])

(* C16: a bare-domain hit whose first label, the text before its first dot, *)
(* is a member of CODE_KEYWORDS gives no match for its span                 *)
C16_KeywordFirstLabel ==
  \A matches \in Extracted : \A c \in BareCandidates(document.text) :
    FirstLabel(document.text, c) \in CODE_KEYWORDS => AtSpan(document.text, matches, c) = {}

(* C17: the bare domain of the text see api.foo.io for details, which has   *)
(* several labels, follows a space, is not followed by ( and ends in a      *)
(* top-level domain of VALID_TLDS, is reported: the text gives exactly one  *)
(* match, with the whole hostname api.foo.io as its domain                  *)
C17_BareDomainReported ==
  document.text = SeeApiText =>
    \A matches \in Extracted :
      /\ Len(matches) = 1
      /\ matches[1].domain = "api.foo.io"
      /\ \A c \in BareCandidates(SeeApiText) :
           Cardinality(AtSpan(SeeApiText, matches, c)) = 1

(* C18, as the claim has it: a URL with a scheme and a valid hostname gives *)
(* exactly one match; its domain is the hostname in lower case, without     *)
(* scheme, www. and path; its span runs from the scheme to the first        *)
(* whitespace, quote, bracket or angle bracket; no other match begins       *)
(* inside that span                                                         *)
C18_SpanToTerminator ==
  \A matches \in Extracted : \A u \in UrlCandidates(document.text) :
    LET text == document.text
        here == {k \in DOMAIN matches : StartOffset(text, matches[k]) = u.index - 1}
    IN  isValidDomain(LowerCase(HostText(text, u))) =>
          /\ Cardinality(here) = 1
          /\ \A k \in here :
               /\ matches[k].domain = Join(LowerCase(HostText(text, u)))
               /\ EndOffset(text, matches[k]) = FirstTerminator(text, u.index) - 1
               /\ \A j \in DOMAIN matches \ {k} :
                    ~ /\ StartOffset(text, matches[j]) >= StartOffset(text, matches[k])
                      /\ StartOffset(text, matches[j]) < EndOffset(text, matches[k])

(* C18, amended: as above, but the span ends with the hostname unless a     *)
(* slash follows it, and then runs through the path to the first            *)
(* whitespace, quote, angle bracket, closing parenthesis or closing bracket *)
C18_SpanToPathEnd ==
  \A matches \in Extracted : \A u \in UrlCandidates(document.text) :
    LET text == document.text
        here == {k \in DOMAIN matches : StartOffset(text, matches[k]) = u.index - 1}
        end == IF u.host.end <= Len(text) /\ text[u.host.end] = "/"
                 THEN FirstTerminator(text, u.host.end + 1)
                 ELSE u.host.end
    IN  isValidDomain(LowerCase(HostText(text, u))) =>
          /\ Cardinality(here) = 1
          /\ \A k \in here :
               /\ matches[k].domain = Join(LowerCase(HostText(text, u)))
               /\ EndOffset(text, matches[k]) = end - 1
               /\ \A j \in DOMAIN matches \ {k} :
                    ~ /\ StartOffset(text, matches[j]) >= StartOffset(text, matches[k])
                      /\ StartOffset(text, matches[j]) < EndOffset(text, matches[k])

(* C18 witness: the text visit https://example-green.dev/page?x=1 today has *)
(* been extracted, with one match from https:// through x=1                 *)
C18_Witness ==
  /\ document.text = VisitText
  /\ \E matches \in Extracted :
       /\ Len(matches) = 1
       /\ matches[1].domain = "example-green.dev"
       /\ matches[1].url = "https://example-green.dev/page?x=1"

(* C19: a bare-domain hit is not reported when the character after it is ( *)
(* nor when the character before it is a dot that follows a letter, a       *)
(* digit, _ or $; the text logger.info(url) gives no match                  *)
C19_CodeConstructsSkipped ==
  \A matches \in Extracted :
    /\ \A c \in BareCandidates(document.text) :
         LET text == document.text
             call == c.end <= Len(text) /\ text[c.end] = "("
             chain == /\ c.index > 2
                      /\ text[c.index - 1] = "."
                      /\ text[c.index - 2] \in (Alnum \cup {"_", "$"})
         IN  (call \/ chain) => AtSpan(text, matches, c) = {}
    /\ document.text = LoggerText => matches = <<>>

(* C19 witness: a text with a call on a name that is no keyword, foo.io(x), *)
(* has been extracted and gave no match                                     *)
C19_Witness ==
  /\ document.text = CallText
  /\ \E c \in BareCandidates(CallText) : FirstLabel(CallText, c) \notin CODE_KEYWORDS
  /\ <<>> \in Extracted

-----------------------------------------------------------------------------
(* The lookups of a call *)

(* The domain of each lookup the call started, in the order of the starts *)
PromisesOf(id) == IF id \in DOMAIN calls THEN calls[id].promises ELSE <<>>

(* The domains whose lookup of the call has not settled *)
Outstanding(id) == calls[id].domainsToCheck \ DOMAIN calls[id].responses

(* C21: a classify call starts one lookup for each of its domains that the  *)
(* cache does not hold or holds expired, and none for any other domain; all *)
(* are started before any is awaited, so the lookups outstanding after the  *)
(* call are as many as the distinct uncached domains of the scan.           *)
C21_OneLookupPerUncachedDomain ==
  [][ (CallMade /\ running) =>
        LET uncached == {d \in NewCall'.domains :
                           ~(d \in DOMAIN urlCache /\ Age(urlCache[d]) < CACHE_EXPIRY)}
        IN  /\ Range(PromisesOf(nCalls)') = uncached
            /\ Len(PromisesOf(nCalls)') = Cardinality(uncached)
            /\ uncached # {} =>
                  /\ nCalls' \in DOMAIN calls'
                  /\ Outstanding(nCalls)' = uncached
                  /\ Cardinality(Outstanding(nCalls)') = Len(PromisesOf(nCalls)')
    ]_vars

(* A call of two domains, one of them fresh in the cache, awaits one lookup *)
C21_Witness ==
  \E id \in DOMAIN calls :
    /\ Cardinality(calls[id].domains) = 2
    /\ Len(calls[id].promises) = 1
    /\ calls[id].responses = EmptyMap
    /\ \E d \in calls[id].domains : d \in DOMAIN urlCache



(* The domains whose lookup of the call settles in the step *)
Resolving(id) ==
  IF id \in DOMAIN calls'
    THEN DOMAIN calls'[id].responses \ DOMAIN calls[id].responses
    ELSE IF id \in DOMAIN returns' THEN Outstanding(id) ELSE {}

(* C22: the result of a lookup is written into the cache when that lookup   *)
(* resolves, and the timestamp of the entry is the time of that write, not  *)
(* an earlier instant such as the start of the batch.                       *)
C22_WrittenWhenResolved ==
  [][ \A id \in DOMAIN calls : \A d \in Resolving(id) :
        /\ d \in DOMAIN urlCache'
        /\ urlCache'[d].timestamp = now'
    ]_vars


(* Some lookup is outstanding before the step and is still so after it *)
InFlight ==
  \E id \in DOMAIN calls \cap DOMAIN calls' : Outstanding(id) \cap Outstanding(id)' # {}

(* C23: the in-memory cache is never mutated while any lookup, of any       *)
(* editor or dashboard scan, is in flight: no entry is inserted,            *)
(* overwritten, deleted or cleared in a step that leaves a lookup           *)
(* outstanding.                                                             *)
C23_NoMutationInFlight ==
  [][ InFlight => urlCache' = urlCache ]_vars


-----------------------------------------------------------------------------
(* The dashboard alone, with a service that answers every lookup in the end *)

ResolveNext ==
  \/ Activate(FALSE)
  \/ nCalls < MaxResolveCalls /\ RunScan
  \/ \E id \in DOMAIN calls, d \in Domains, outcome \in ServiceOutcomes :
       LookupResolve(id, d, outcome)
  \/ Tick

LookupResolves ==
  \E id \in DOMAIN calls, d \in Domains, outcome \in ServiceOutcomes :
    LookupResolve(id, d, outcome)

(* fetch settles its promise, with a response or a failure, and the event   *)
(* loop then runs the continuation of the task that awaits it               *)
ResolveSpec == LookupInit /\ [][ResolveNext]_vars /\ WF_vars(LookupResolves)

(* C24: a classify call returns exactly when every lookup it started has    *)
(* resolved. A call returns only with the outcome of each of its lookups;   *)
(* while one of its lookups is outstanding it has not returned and none of  *)
(* its results, those of its resolved lookups included, is written into the *)
(* cache; and when every lookup resolves in the end, the call returns.      *)
C24_ReturnsWhenAllResolved ==
  /\ [][ /\ \A id \in DOMAIN returns' \ DOMAIN returns :
              DOMAIN returns'[id].outcomes = returns'[id].domainsToCheck
         /\ \A id \in DOMAIN calls \cap DOMAIN calls' :
              /\ Outstanding(id)' # {}
              /\ id \notin DOMAIN returns'
              /\ Settling = {} =>
                   \A d \in calls[id].domainsToCheck :
                     d \in DOMAIN urlCache' =>
                       (d \in DOMAIN urlCache /\ urlCache'[d] = urlCache[d])
       ]_vars
  /\ \A id \in 1..MaxResolveCalls : (id \in DOMAIN calls) ~> (id \in DOMAIN returns)

(* A call has returned after both of its lookups, one of them failed *)
C24_Witness ==
  \E id \in DOMAIN returns :
    /\ Cardinality(returns[id].domainsToCheck) = 2
    /\ DOMAIN returns[id].outcomes = returns[id].domainsToCheck
    /\ \E d \in returns[id].domainsToCheck : Failed(returns[id].outcomes[d])
    /\ returns[id].domainsToCheck \subseteq DOMAIN urlCache


-----------------------------------------------------------------------------
(* The failures of a lookup *)

(* The service was not reached, or answered with a status outside 200-299 *)
TransportFailure(outcome) == outcome.type \in {"reject", "status"}

(* The outcome of every lookup settled so far, of the calls under way and   *)
(* of those that have returned                                              *)
Lookups ==
  {[outcome |-> calls[id].outcomes[d], result |-> calls[id].responses[d]] :
     <<id, d>> \in UNION {{id} \X DOMAIN calls[id].responses : id \in DOMAIN calls}}
  \cup
  {[outcome |-> returns[id].outcomes[d], result |-> returns[id].results[d]] :
     <<id, d>> \in UNION {{id} \X (DOMAIN returns[id].outcomes \cap DOMAIN returns[id].results) :
                           id \in DOMAIN returns}}

(* C25, as stated: checkSingleDomain itself turns every transport failure   *)
(* and every non-success response into a returned result with green = null  *)
(* and the error set; it throws nothing to its caller.                      *)
C25_ClientReturnsFailures ==
  \A l \in Lookups :
    TransportFailure(l.outcome) =>
      LET r == checkSingleDomain(l.outcome)
      IN  /\ ~r.threw
          /\ r.value.green = NULL
          /\ r.value.error # UNDEF

(* C25, amended: checkSingleDomain throws on a transport failure and on a   *)
(* non-success response; the task that batchInspectGreenHosting runs for    *)
(* the domain catches the exception and turns it into the result with       *)
(* green = null and the message as error, so the task is fulfilled, the     *)
(* call is not rejected, and the result the call keeps is that one.         *)
C25_TaskCatchesFailures ==
  /\ \A l \in Lookups :
       TransportFailure(l.outcome) =>
         LET r == checkSingleDomain(l.outcome)
             task == LookupTask(l.outcome)
         IN  /\ r.threw
             /\ r.message # UNDEF
             /\ task.settled = "fulfilled"
             /\ task.result = [green |-> NULL, hostedBy |-> UNDEF, error |-> r.message]
             /\ l.result = task.result
  /\ \A id \in DOMAIN returns : returns[id].status = "fulfilled"

(* A call has returned the failure of a lookup the service answered with    *)
(* status 500, next to the answer of another lookup                         *)
C25_Witness ==
  \E id \in DOMAIN returns : \E d, e \in DOMAIN returns[id].outcomes :
    /\ returns[id].outcomes[d].type = "status"
    /\ returns[id].outcomes[d].status = 500
    /\ returns[id].results[d].green = NULL
    /\ returns[id].results[d].error = "API error (HTTP 500)"
    /\ returns[id].outcomes[e].type = "json"


-----------------------------------------------------------------------------
(* Clear-cache and the calls under way *)

(* The map holds for the domain what it held before the step, or nothing *)
Kept(map, d) == d \in DOMAIN map' => (d \in DOMAIN map /\ map'[d] = map[d])

(* The dashboard, the editor and the clear-cache command *)
ClearNext ==
  \/ Activate(FALSE)
  \/ nCalls < MaxClearCalls /\ Activate(TRUE)
  \/ nCalls < MaxClearCalls /\ onDidChangeActiveTextEditor
  \/ nCalls < MaxClearCalls /\ RunScan
  \/ \E id \in DOMAIN calls, d \in Domains, outcome \in ServiceOutcomes :
       LookupResolve(id, d, outcome)
  \/ ClearCacheInFlight
  \/ ClearCacheResume(FALSE)
  \/ nCalls < MaxClearCalls /\ ClearCacheResume(TRUE)
  \/ Tick

ClearSpec == Init /\ [][ClearNext]_vars

(* C26: after clear-cache has run, neither the cache nor its durable copy   *)
(* ever holds an entry made from a lookup started before the clear: a call  *)
(* that awaited its lookups while the cache was cleared puts none of its    *)
(* results into the cache when it settles, and none into the durable copy.  *)
C26_NoEntryFromBeforeClear ==
  [][ \A id \in Settling : calls[id].cleared =>
        \A d \in calls[id].domainsToCheck :
          /\ Kept(urlCache, d)
          /\ d \in DOMAIN Stored' =>
               \/ d \in DOMAIN Stored /\ Stored'[d] = Stored[d]
               \/ d \in DOMAIN urlCache /\ Stored'[d] = urlCache[d]
    ]_vars


(* C27: across all the classify calls under way, at most one lookup of any  *)
(* one domain is in flight at any time.                                     *)
C27_OneLookupInFlightPerDomain ==
  \A id, other \in DOMAIN calls :
    id # other => Outstanding(id) \cap Outstanding(other) = {}


-----------------------------------------------------------------------------
(* The debounce of onDidChangeTextDocument *)

(* What the user may type into the document *)
EditTexts == {TwoDomainsText, OneDomainText, <<>>}

(* setTimeout(callback, DEBOUNCE_DELAY); the callback keeps the event, of   *)
(* which it reads contentChanges.length                                     *)
Timer(contentChanges) == [due |-> now + DEBOUNCE_DELAY, contentChanges |-> contentChanges]

(* clearTimeout(handle): nothing happens when the timer has run *)
clearTimeout(pending, handle) == MapDelete(pending, {handle})

(* The handler without its clearTimeout *)
Debounce_NoClear(contentChanges) ==
  /\ nTimers' = nTimers + 1
  /\ debounceTimeout' = nTimers + 1
  /\ timers' = MapSet(timers, nTimers + 1, Timer(contentChanges))

(* The body of the handler for an event on the document of the active editor *)
Debounce(contentChanges) ==
  /\ nTimers' = nTimers + 1
  /\ debounceTimeout' = nTimers + 1
  /\ timers' = MapSet(IF debounceTimeout # NoTimeout
                        THEN clearTimeout(timers, debounceTimeout)
                        ELSE timers,
                      nTimers + 1, Timer(contentChanges))

(* onDidChangeTextDocument for the document of the active editor, after the *)
(* user has made its text be text: an event with one content change when    *)
(* the text is new (the version of the document has gone up by then), an    *)
(* event with none when it is not (the dirty state of the document changed) *)
onDidChangeTextDocument(text) ==
  /\ running
  /\ document' = IF text = document.text THEN document
                 ELSE [document EXCEPT !.text = text, !.version = @ + 1]
  /\ Debounce(IF text = document.text THEN 0 ELSE 1)
  /\ UNCHANGED <<now, running, urlCache, globalState, processedDocuments, workspace,
                 calls, returns, clearsPending, nCalls, storage, nTicks>>
  /\ UNCHANGED panelVars

(* The event loop runs the callback of a timer that is due *)
TimerFires(handle) ==
  /\ running
  /\ handle \in DOMAIN timers
  /\ now >= timers[handle].due
  /\ timers' = MapDelete(timers, {handle})
  /\ IF timers[handle].contentChanges > 0
       THEN applyDecorations(document, urlCache, processedDocuments, storage)
       ELSE UNCHANGED <<urlCache, processedDocuments, calls, returns, globalState,
                        nCalls, storage>>
  /\ UNCHANGED <<now, running, document, workspace, clearsPending, nTicks,
                 debounceTimeout, nTimers>>
  /\ UNCHANGED panelVars

(* Half the delay passes while a timer counts down *)
ElapseStep == DEBOUNCE_DELAY \div 2

Elapse ==
  /\ \E handle \in DOMAIN timers : timers[handle].due > now
  /\ now' = now + ElapseStep
  /\ returns' = Stale(returns)
  /\ UNCHANGED <<running, urlCache, globalState, processedDocuments, document,
                 workspace, calls, clearsPending, nCalls, storage, nTicks>>
  /\ UNCHANGED timerVars
  /\ UNCHANGED panelVars

(* The editor with its change events *)

DebounceInit == EditorInit

DebounceNext ==
  \/ Activate(TRUE)
  \/ \E text \in EditTexts : nTimers < MaxEvents /\ onDidChangeTextDocument(text)
  \/ \E handle \in DOMAIN timers : TimerFires(handle)
  \/ \E id \in DOMAIN calls : \E d \in calls[id].domainsToCheck, outcome \in ServiceOutcomes :
       LookupResolve(id, d, outcome)
  \/ Elapse

DebounceSpec == DebounceInit /\ [][DebounceNext]_vars


(* C28: when two applyDecorations runs of the editor overlap, what they     *)
(* leave is the outcome of the run that started later, on the newer text:   *)
(* a run that finishes after a run started later than it has finished does  *)
(* not overwrite the stored record of the document (nor the decorations,    *)
(* which it sets from the same ranges). Every call here is a run of the one *)
(* editor, and a later run has the greater call number.                     *)
C28_LaterRunWins ==
  [][ \A id \in Settling :
        (\E later \in DOMAIN returns : later > id) =>
          processedDocuments' = processedDocuments
    ]_vars


(* A timer is due: the event loop can run its callback *)
TimerDue == running /\ \E handle \in DOMAIN timers : now >= timers[handle].due

TimerRuns == \E handle \in DOMAIN timers : TimerFires(handle)

(* Time passes, and the event loop runs the callback of a timer once it is *)
(* due: weak fairness of TimerRuns, which is enabled when TimerDue          *)
DebounceLiveSpec ==
  /\ DebounceSpec
  /\ WF_vars(Elapse)
  /\ ([]<>(~TimerDue) \/ []<><<TimerRuns>>_vars)

(* The stored record of the document is that of its text and version: an    *)
(* applyDecorations run on them has finished, or would find nothing to do   *)
Decorated ==
  /\ document.uri \in DOMAIN processedDocuments
  /\ processedDocuments[document.uri].hash = simpleHash(document.text)
  /\ processedDocuments[document.uri].version = document.version

(* C29: every content change of the active editor's document is followed by *)
(* an applyDecorations run once the change events have stopped for 1000 ms, *)
(* whatever change events, with or without content changes, came before the *)
(* quiet period: after the event of a content change (the k-th event, n     *)
(* runs having called the classification so far) a run calls the            *)
(* classification, or leaves or finds the record of the text as it is then. *)
C29_ChangeLeadsToRun ==
  \A k \in 1..MaxEvents : \A n \in 0..(MaxEvents + 1) :
    (/\ nTimers = k
     /\ k \in DOMAIN timers
     /\ timers[k].contentChanges > 0
     /\ nCalls = n)
      ~> (nCalls > n \/ Decorated)


(* C30: at most one debounce timer is pending at any time. A change event   *)
(* cancels the timer before it and leaves its own, due 1000 ms later, as    *)
(* the only one; the timer that runs is the one of the last event, it runs  *)
(* 1000 ms after that event, and it calls applyDecorations at most once, so *)
(* a burst of events gives at most one run.                                 *)
C30_OneTimerPending ==
  [][ /\ Cardinality(DOMAIN timers') <= 1
      /\ nTimers' = nTimers + 1 =>
           /\ DOMAIN timers' = {nTimers'}
           /\ debounceTimeout' = nTimers'
           /\ timers'[nTimers'].due = now + DEBOUNCE_DELAY
      /\ (nTimers' = nTimers /\ timers' # timers) =>
           /\ DOMAIN timers = {nTimers}
           /\ timers' = EmptyMap
           /\ now = timers[nTimers].due
           /\ nCalls' <= nCalls + 1
    ]_vars

(* Two content changes 500 ms apart, and 1000 ms after the second one the   *)
(* one run, on the text of the second, awaits its lookups                   *)
C30_Witness ==
  /\ nTimers = 2
  /\ timers = EmptyMap
  /\ now = DEBOUNCE_DELAY + ElapseStep
  /\ document.version = 3
  /\ \E id \in DOMAIN calls :
       /\ calls[id].ctx.version = 3
       /\ calls[id].ctx.hash = simpleHash(document.text)
       /\ \A other \in DOMAIN calls : other = id


-----------------------------------------------------------------------------
(* The editor: its document is edited, and the editor is returned to from  *)
(* another one, within the delay of the debounce                            *)

RescanNext ==
  \/ Activate(TRUE)
  \/ nCalls < MaxRescanCalls /\ onDidChangeActiveTextEditor
  \/ \E text \in EditTexts : nTimers < MaxEvents /\ onDidChangeTextDocument(text)
  \/ \E id \in DOMAIN calls : \E d \in calls[id].domainsToCheck, outcome \in ServiceOutcomes :
       LookupResolve(id, d, outcome)

RescanSpec == DebounceInit /\ [][RescanNext]_vars

(* The stored record of the document is that of a scan of the text it has *)
SameText ==
  /\ document.uri \in DOMAIN processedDocuments
  /\ processedDocuments[document.uri].hash = simpleHash(document.text)

C32_ClearDiscardsRecords ==
  [][ /\ clearsPending' > clearsPending => processedDocuments' = EmptyMap
      /\ \A id \in Settling :
           calls[id].cleared => processedDocuments' = processedDocuments
    ]_vars


-----------------------------------------------------------------------------
(* The entry of domain d differs in the map after the step from the one     *)
(* before it, or is new                                                     *)
Rewritten(before, after, d) == d \notin DOMAIN before \/ after[d] # before[d]

(* C33: the snapshot a save writes holds every cache entry with the same    *)
(* green, hostedBy, error and timestamp; activation puts every stored entry *)
(* younger than 7 days into the cache as it is stored; and an entry of the  *)
(* cache or of the snapshot gets a timestamp only from the call whose       *)
(* lookup created it, from the snapshot at activation, or from the cache at *)
(* a save, so saves and restarts never make an entry younger                *)
C33_RoundTripKeepsTimestamp ==
  [][ /\ \A id \in Settling : returns'[id].status = "fulfilled" =>
           /\ DOMAIN Stored' = DOMAIN urlCache'
           /\ \A d \in DOMAIN urlCache' :
                /\ Stored'[d].green = urlCache'[d].green
                /\ Stored'[d].hostedBy = urlCache'[d].hostedBy
                /\ Stored'[d].error = urlCache'[d].error
                /\ Stored'[d].timestamp = urlCache'[d].timestamp
      /\ (~running /\ running') =>
           \A d \in DOMAIN Stored : Age(Stored[d]) < CACHE_EXPIRY =>
             /\ d \in DOMAIN urlCache'
             /\ urlCache'[d].green = Stored[d].green
             /\ urlCache'[d].hostedBy = Stored[d].hostedBy
             /\ urlCache'[d].error = Stored[d].error
             /\ urlCache'[d].timestamp = Stored[d].timestamp
      /\ \A d \in DOMAIN urlCache' : Rewritten(urlCache, urlCache', d) =>
           \/ \E id \in Settling : /\ d \in calls[id].domainsToCheck
                                   /\ urlCache'[d].timestamp = calls[id].now
           \/ /\ ~running /\ running'
              /\ d \in DOMAIN Stored
              /\ urlCache'[d] = Stored[d]
      /\ \A d \in DOMAIN Stored' : Rewritten(Stored, Stored', d) =>
           d \in DOMAIN urlCache' /\ Stored'[d] = urlCache'[d]
    ]_vars

(* C33 witness: a process that has made no call holds in its cache an entry *)
(* of the snapshot, created in an earlier process some time ago, with the   *)
(* timestamp of its creation                                                *)
C33_Witness ==
  /\ running
  /\ calls = EmptyMap
  /\ returns = EmptyMap
  /\ \E d \in DOMAIN urlCache :
       /\ d \in DOMAIN Stored
       /\ urlCache[d] = Stored[d]
       /\ Age(urlCache[d]) > 0
       /\ Age(urlCache[d]) < CACHE_EXPIRY


-----------------------------------------------------------------------------
(* The span of a match as the text has it *)
Written(text, m) == Slice(text, StartOffset(text, m) + 1, EndOffset(text, m) + 1)

(* The hostname in a span: what stands after the scheme, if the span has    *)
(* one, and before the first slash after that                               *)
WrittenHost(span) ==
  LET s == IF StartsWith(span, 1, Https) THEN Len(Https) + 1
           ELSE IF StartsWith(span, 1, Http) THEN Len(Http) + 1
           ELSE 1
      slashes == {i \in s..Len(span) : span[i] = "/"}
      e == IF slashes = {} THEN Len(span) + 1
           ELSE CHOOSE i \in slashes : \A j \in slashes : i <= j
  IN  Slice(span, s, e)

(* A hostname without its www. prefix; www. before a single label is no     *)
(* prefix but the first label of the host                                   *)
WithoutWww(host) ==
  LET rest == SubSeq(host, Len(Www) + 1, Len(host))
  IN  IF StartsWith(host, 1, Www) /\ Includes(rest, <<".">>) THEN rest ELSE host

(* C34: the domain of every match is the hostname written in its span, in   *)
(* lower case and without the www. prefix, whether the span has a scheme, a *)
(* path, capitals or www. or not, and its url is the span as written; a     *)
(* classify call of the editor starts at most one lookup for a domain, for  *)
(* a domain of its matches, and the cache is keyed by such domains          *)
C34_SameHostOneDomain ==
  /\ \A matches \in Extracted : \A k \in DOMAIN matches :
       LET span == Written(document.text, matches[k])
       IN  /\ matches[k].url = Join(span)
           /\ matches[k].domain = Join(LowerCase(WithoutWww(WrittenHost(span))))
  /\ \A id \in DOMAIN calls : calls[id].ctx.caller = "editor" =>
       LET matches == calls[id].ctx.matches
           written == {Join(LowerCase(WithoutWww(WrittenHost(Written(document.text, matches[k]))))) :
                         k \in DOMAIN matches}
       IN  /\ \A i, j \in DOMAIN calls[id].promises :
                calls[id].promises[i] = calls[id].promises[j] => i = j
           /\ Range(calls[id].promises) \subseteq written
           /\ calls[id].domainsToCheck \subseteq written
           /\ DOMAIN calls[id].responses \subseteq written

(* C34 witness: Foo.COM, www.foo.com and https://www.foo.com/x are three    *)
(* matches of one scan, each with its own text and all of domain foo.com,   *)
(* and the scan awaits one lookup                                           *)
C34_Witness ==
  \E id \in DOMAIN calls :
    LET matches == calls[id].ctx.matches
    IN  /\ document.text = CaseWwwText
        /\ {matches[k].url : k \in DOMAIN matches} =
             {"Foo.COM", "www.foo.com", "https://www.foo.com/x"}
        /\ \A k \in DOMAIN matches : matches[k].domain = "foo.com"
        /\ calls[id].promises = <<"foo.com">>
        /\ Outstanding(id) = {"foo.com"}


-----------------------------------------------------------------------------
(* The domain of a match, read from its span, and its labels *)
DomainChars(text, m) == LowerCase(WithoutWww(WrittenHost(Written(text, m))))

Labels(text, m) == Split(DomainChars(text, m), ".")

LastLabel(text, m) == Join(Labels(text, m)[Len(Labels(text, m))])

(* C35 as stated: no match has a domain that is in EXCLUDE_PATTERNS as a    *)
(* whole, or whose last label is in EXCLUDE_PATTERNS, whatever the number   *)
(* of its labels                                                            *)
C35_NoDenylistedDomain ==
  \A matches \in Extracted : \A k \in DOMAIN matches :
    /\ matches[k].domain \notin EXCLUDE_PATTERNS
    /\ LastLabel(document.text, matches[k]) \notin EXCLUDE_PATTERNS

(* C35, amended: no match has a domain that is in EXCLUDE_PATTERNS as a     *)
(* whole, and no match of one or two labels has a label in EXCLUDE_PATTERNS;*)
(* a match whose last label is in EXCLUDE_PATTERNS has three labels or      *)
(* more, and that label is in VALID_TLDS as well                            *)
C35_DenylistUpToTwoLabels ==
  \A matches \in Extracted : \A k \in DOMAIN matches :
    LET parts == Labels(document.text, matches[k])
    IN  /\ matches[k].domain = Join(DomainChars(document.text, matches[k]))
        /\ matches[k].domain \notin EXCLUDE_PATTERNS
        /\ Len(parts) <= 2 => \A i \in DOMAIN parts : Join(parts[i]) \notin EXCLUDE_PATTERNS
        /\ LastLabel(document.text, matches[k]) \in EXCLUDE_PATTERNS =>
             /\ Len(parts) >= 3
             /\ LastLabel(document.text, matches[k]) \in VALID_TLDS

(* C35 witness: of get.docker.sh, foo.sh, package.json and https://test.com *)
(* the scan has reported get.docker.sh alone                                *)
C35_Witness ==
  /\ document.text = DenylistText
  /\ \E matches \in Extracted :
       /\ Len(matches) = 1
       /\ matches[1].domain = "get.docker.sh"
       /\ matches[1].url = "get.docker.sh"


-----------------------------------------------------------------------------
(* The labels begin with a dotted quad: three labels of digits and a fourth *)
(* that begins with a digit                                                 *)
DottedQuad(parts) ==
  /\ Len(parts) >= IpGroups
  /\ \A i \in 1..(IpGroups - 1) : \A j \in DOMAIN parts[i] : parts[i][j] \in Digit
  /\ parts[IpGroups][1] \in Digit

(* C36: every match of either pass has a domain whose last label is in      *)
(* VALID_TLDS, that does not contain localhost, and that does not begin     *)
(* with a dotted quad of digits                                             *)
C36_MatchesAccepted ==
  \A matches \in Extracted : \A k \in DOMAIN matches :
    /\ matches[k].domain = Join(DomainChars(document.text, matches[k]))
    /\ LastLabel(document.text, matches[k]) \in VALID_TLDS
    /\ ~Includes(DomainChars(document.text, matches[k]),
                 <<"l", "o", "c", "a", "l", "h", "o", "s", "t">>)
    /\ ~DottedQuad(Labels(document.text, matches[k]))

(* C36 witness: of 1.2.3.4.com, mylocalhost.io, https://foo.xyz,            *)
(* http://localhost.dev and ok.dev the scan has reported ok.dev alone       *)
C36_Witness ==
  /\ document.text = AddressText
  /\ \E matches \in Extracted :
       /\ Len(matches) = 1
       /\ matches[1].domain = "ok.dev"


-----------------------------------------------------------------------------
(* The dashboard alone: the workspace holds the file of the document, a     *)
(* file with one domain, a file that is too large and a file that cannot be *)
(* read                                                                     *)

MaxScans == 2

MaxPanelCalls == 1

OpenPath == "src/open.ts"

(* The file of a document *)
OpenFile(doc) == WorkspaceFile(OpenPath, Len(doc.text), TRUE, doc.text)

FileLists(doc) ==
  LET open == OpenFile(doc)
      notes == WorkspaceFile("notes.md", Len(OneDomainText), TRUE, OneDomainText)
      large == WorkspaceFile("large.json", MAX_FILE_SIZE + 1, TRUE, OneDomainText)
      locked == WorkspaceFile("locked.txt", Len(OneDomainText), FALSE, OneDomainText)
  IN  {<<open>>, <<notes, large, open, locked>>}

(* What the service answers: green, not green, or a failure *)
PanelOutcomes ==
  {o \in FetchOutcomes : o.type = "reject" \/ (o.type = "json" /\ o.green # UNDEF)}

PanelDocuments ==
  {Document("typescript", text) : text \in {TwoDomainsText, ObjectIsText}}

PanelInit == InitWith(PanelDocuments, Workspaces)

PanelNext ==
  \/ Activate(FALSE)
  \/ \E workspaceFolders \in BOOLEAN : nScans < MaxScans /\ runScan(workspaceFolders)
  \/ \E sid \in DOMAIN scans : findFilesRejects(sid)
  \/ \E sid \in DOMAIN scans : \E files \in FileLists(document) :
       nCalls < MaxPanelCalls /\ scanWorkspace(sid, files)
  \/ \E id \in DOMAIN calls : \E d \in calls[id].domainsToCheck, outcome \in PanelOutcomes :
       LookupResolve(id, d, outcome)

PanelSpec == PanelInit /\ [][PanelNext]_vars

(* The two extractions side by side: the editor scans the document at       *)
(* activation, and the dashboard scans the workspace, which holds the file  *)
(* of the document                                                          *)

MaxExtractorScans == 1

ExtractorsNext ==
  \/ Activate(TRUE)
  \/ nScans < MaxExtractorScans /\ runScan(TRUE)
  \/ \E sid \in DOMAIN scans : scanWorkspace(sid, <<OpenFile(document)>>)
  \/ \E id \in DOMAIN calls : \E d \in calls[id].domainsToCheck, outcome \in ServiceOutcomes :
       LookupResolve(id, d, outcome)

ExtractorsSpec == ExtractInit /\ [][ExtractorsNext]_vars


(* The domains of the matches of the editor, in their order *)
DomainsOf(matches) == [k \in 1..Len(matches) |-> matches[k].domain]

(* C37: the domains the dashboard has extracted from the file of the        *)
(* document are, in number and order, the domains of the matches the        *)
(* editor has extracted from the document, for every text                   *)
C37_SameDomainsBothExtractors ==
  \A sid \in DOMAIN scans : \A k \in DOMAIN scans[sid].reads :
    scans[sid].reads[k].relativePath = OpenPath =>
      \A matches \in Extracted :
        /\ Len(scans[sid].reads[k].domains) = Len(matches)
        /\ scans[sid].reads[k].domains = DomainsOf(matches)

(* C37 witness: the editor and the dashboard both await the classification  *)
(* of what they extracted from the two-line text, the two domains           *)
(* foo-bar.io and b.com                                                     *)
C37_Witness ==
  /\ document.text = TwoLineText
  /\ \E sid \in DOMAIN scans :
       /\ scans[sid].phase = "checking"
       /\ scans[sid].reads[1].relativePath = OpenPath
       /\ scans[sid].reads[1].domains = <<"foo-bar.io", "b.com">>
  /\ \E matches \in Extracted : Len(matches) = 2


-----------------------------------------------------------------------------
(* The scans that end with their results in the step *)
Reporting == {sid \in DOMAIN scans' : /\ scans'[sid].phase = "results"
                                      /\ (sid \notin DOMAIN scans \/ scans[sid].phase # "results")}

(* The rows of a WorkspaceMetrics that are green *)
GreenRows(metrics) == {k \in DOMAIN metrics.domains : metrics.domains[k].green = JsTrue}

(* C38: in the WorkspaceMetrics a scan posts, greenDomains and              *)
(* notVerifiedDomains add up to uniqueDomains, which is the number of rows, *)
(* one for each domain found; greenDomains is the number of domains for     *)
(* which the classification returned green = true, and these are the green  *)
(* rows; totalUrls is the sum of the occurrences of the rows                *)
C38_MetricsAddUp ==
  [][ \A sid \in Reporting :
        LET metrics == posted'[Len(posted')].data
            apiResults == returns'[scans'[sid].call].results
            found == UNION {Range(scans'[sid].reads[k].domains) :
                              k \in DOMAIN scans'[sid].reads}
            green == {d \in found : d \in DOMAIN apiResults /\ apiResults[d].green = JsTrue}
        IN  /\ posted'[Len(posted')].command = "results"
            /\ metrics.greenDomains + metrics.notVerifiedDomains = metrics.uniqueDomains
            /\ metrics.uniqueDomains = Len(metrics.domains)
            /\ {metrics.domains[k].domain : k \in DOMAIN metrics.domains} = found
            /\ Cardinality(found) = Len(metrics.domains)
            /\ metrics.greenDomains = Cardinality(green)
            /\ {metrics.domains[k].domain : k \in GreenRows(metrics)} = green
            /\ metrics.totalUrls =
                 Sum([k \in 1..Len(metrics.domains) |-> metrics.domains[k].occurrences])
            /\ metrics.totalUrls =
                 Sum([k \in 1..Len(scans'[sid].reads) |-> Len(scans'[sid].reads[k].domains)])
    ]_vars

(* C38 witness: a scan of two files has posted metrics with one green       *)
(* domain and one that is not verified, found at four places                *)
C38_Witness ==
  \E i \in DOMAIN posted :
    /\ posted[i].command = "results"
    /\ posted[i].data.greenDomains = 1
    /\ posted[i].data.notVerifiedDomains = 1
    /\ posted[i].data.uniqueDomains = 2
    /\ posted[i].data.totalUrls = 4
    /\ posted[i].data.scannedFiles = 2


-----------------------------------------------------------------------------
(* The scans of the panel to their end *)

(* findFiles and the reads of a scan settle *)
FilesSettle ==
  \E sid \in DOMAIN scans :
    \/ findFilesRejects(sid)
    \/ \E files \in FileLists(document) : nCalls < MaxPanelCalls /\ scanWorkspace(sid, files)

Finding == \E sid \in DOMAIN scans : scans[sid].phase = "finding"

PanelLookupResolves ==
  \E id \in DOMAIN calls : \E d \in calls[id].domainsToCheck, outcome \in ServiceOutcomes :
    LookupResolve(id, d, outcome)

PanelLiveNext ==
  \/ Activate(FALSE)
  \/ \E workspaceFolders \in BOOLEAN : nScans < MaxScans /\ runScan(workspaceFolders)
  \/ FilesSettle
  \/ PanelLookupResolves

(* The workspace answers findFiles, stat and readFile, and fetch settles    *)
(* its promise: the event loop then runs the continuation of the scan that  *)
(* awaits them                                                              *)
PanelLiveSpec ==
  /\ PanelInit
  /\ [][PanelLiveNext]_vars
  /\ ([]<>(~Finding) \/ []<><<FilesSettle>>_vars)
  /\ ([]<>(calls = EmptyMap) \/ []<><<PanelLookupResolves>>_vars)

(* The terminal messages among messages, and the scans that have ended *)
Terminals(messages) ==
  {i \in DOMAIN messages : messages[i].command \in {"results", "error"}}

Ended(all) == {sid \in DOMAIN all : all[sid].phase \in {"results", "error"}}

(* C39: a scan begins by posting scanning; a step posts a terminal message  *)
(* exactly when a scan ends in it, that message is results or error as the  *)
(* scan has ended, it is the last the scan posts, and a scan that has ended *)
(* stays as it is; when results is posted the durable copy is the cache,    *)
(* and the step that posts error leaves the durable copy alone; and every   *)
(* scan that has begun ends                                                 *)
C39_OneTerminalMessage ==
  /\ [][ LET new == SubSeq(posted', Len(posted) + 1, Len(posted'))
             ending == Ended(scans') \ Ended(scans)
         IN  /\ Len(posted') >= Len(posted)
             /\ SubSeq(posted', 1, Len(posted)) = posted
             /\ nScans' = nScans + 1 =>
                  /\ Len(new) > 0
                  /\ new[1].command = "scanning"
                  /\ (nScans + 1) \in DOMAIN scans'
             /\ \A i \in DOMAIN new : new[i].command = "scanning" => (i = 1 /\ nScans' = nScans + 1)
             /\ Cardinality(Terminals(new)) = Cardinality(ending)
             /\ Cardinality(ending) <= 1
             /\ \A sid \in ending : new[Len(new)].command = scans'[sid].phase
             /\ \A sid \in Ended(scans) : sid \in DOMAIN scans' /\ scans'[sid] = scans[sid]
             /\ \A sid \in ending :
                  IF scans'[sid].phase = "results"
                    THEN MementoHas(globalState', CACHE_STORAGE_KEY) /\ Stored' = urlCache'
                    ELSE globalState' = globalState
       ]_vars
  /\ \A sid \in 1..MaxScans : (sid \in DOMAIN scans) ~> (sid \in Ended(scans))

(* C39 witness: one scan has ended with results, which are in the durable   *)
(* copy, and another, made without a workspace folder, with error, and the  *)
(* panel has posted one terminal message for each                           *)
C39_Witness ==
  /\ DOMAIN scans = {1, 2}
  /\ scans[1].phase = "results"
  /\ scans[2].phase = "error"
  /\ Stored # EmptyMap
  /\ Stored = urlCache
  /\ posted[1].command = "scanning"
  /\ posted[Len(posted)].command = "error"
  /\ posted[Len(posted)].message = "Error: No workspace folder is open."
  /\ Cardinality(Terminals(posted)) = 2

=============================================================================
